-------------------------- MODULE MCStreamUploader --------------------------
(* Small instances of StreamUploader for TLC: chunks of two units.         *)
EXTENDS StreamUploader

In(size, expected, digest, types) ==
    [size |-> size, expectedSize |-> expected, sha1 |-> digest, thumbnails |-> types]

\* Two blocks; one and a thumbnail; a stream shorter than expected, with the
\* expected number of blocks; one longer than expected; a wrong digest; an empty
\* file with a thumbnail.
SomeInputs ==
    {In(4, 4, "right", {}), In(2, 2, "right", {1}), In(1, 2, "none", {}),
     In(4, 2, "none", {}), In(2, 2, "wrong", {}), In(0, 0, "none", {1})}
=============================================================================
