--------------------------- MODULE MCClientParts ---------------------------
EXTENDS ClientParts

\* Photos 1, 2 and 3, of which `foreign' are in another volume; 10 is related to
\* all of them, 11 becomes so later.
Call(op, asked) ==
    [op |-> op, asked |-> asked, foreign |-> {}, album |-> {}, timeline |-> {1, 2, 3}, elsewhere |-> {},
     related |-> {}, late |-> {11}, unreadable |-> {}, noDigest |-> {}, tagsToAdd |-> {}, tagsToRemove |-> {},
     force |-> FALSE, save |-> FALSE]

Add == Call("add", <<1, 2, 3>>)
Save == Call("save", <<1, 2, 3>>)
Delete == Call("delete", <<>>)
Tag == [Call("tag", <<1, 2>>) EXCEPT !.album = {1}, !.timeline = {2}]

MCAlbumCases ==
    {[Add EXCEPT !.foreign = {3}, !.timeline = {1, 2}, !.related = {10}],
     [Add EXCEPT !.related = {10}, !.unreadable = {11}],
     [Add EXCEPT !.noDigest = {2}, !.album = {3}, !.timeline = {1, 2}],
     [Save EXCEPT !.foreign = {2}, !.album = {1, 3}, !.timeline = {}, !.related = {10}],
     [Save EXCEPT !.foreign = {2}, !.album = {1}, !.timeline = {3}, !.unreadable = {11}],
     [Call("remove", <<1, 2, 3>>) EXCEPT !.album = {1, 2, 3}],
     [Delete EXCEPT !.album = {1, 2, 3}, !.timeline = {3}, !.elsewhere = {4}, !.save = TRUE],
     [Delete EXCEPT !.album = {1, 2}, !.timeline = {3}, !.force = TRUE],
     [Delete EXCEPT !.album = {1, 2}, !.timeline = {3}],
     [Tag EXCEPT !.tagsToAdd = {"favourite", "t"}, !.tagsToRemove = {"u"}],
     [Tag EXCEPT !.noDigest = {1}, !.tagsToAdd = {"favourite"}, !.tagsToRemove = {"u"}],
     [Call("tag", <<1, 2>>) EXCEPT !.tagsToAdd = {"t"}]}

\* Small files: empty or not, without, with a right or a wrong digest, thumbnails
\* given by type or not.
MCSmallCases == [size : {0, 2}, sha1 : {"none", "right", "wrong"}, thumbnails : {<<>>, <<1, 2>>, <<2, 1>>}]

Up(kind, client, override, size, declared) ==
    [kind |-> kind, client |-> client, override |-> override, size |-> size,
     declared |-> declared]

\* Two of one client and one of an anonymous one; three that must override or
\* give way; revisions of one file; sizes that are filled in.
SomeRequests ==
    {<<Up("stream", "a", FALSE, 1, 1), Up("stream", "a", FALSE, 2, 2),
       Up("small", None, FALSE, 1, 1)>>,
     <<Up("photo", None, FALSE, 1, 1), Up("stream", None, FALSE, 1, 1),
       Up("stream", "b", TRUE, 1, 1)>>,
     <<Up("revision", "a", FALSE, 1, 1), Up("revision", "b", FALSE, 1, 1),
       Up("smallRevision", "b", FALSE, 1, 1)>>,
     <<Up("stream", "a", FALSE, 2, 0), Up("small", "a", FALSE, 1, 1),
       Up("photo", "b", FALSE, 1, 0)>>}
=============================================================================
