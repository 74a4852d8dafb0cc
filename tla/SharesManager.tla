---------------------------- MODULE SharesManager ----------------------------
(***************************************************************************)
(* SharesManager of the JS SDK (js/sdk/src/internal/shares): the user's    *)
(* own volume, which is created when there is none, and the keys and       *)
(* addresses that go with its share.  Every other part of the SDK asks for *)
(* the ids of the own volume, often at the same time.                      *)
(*                                                                         *)
(* A volume, its share and its root node are one number.                   *)
(***************************************************************************)
EXTENDS Naturals

CONSTANTS
    RootCallers,      \* parts of the SDK that ask
    MaxVolumeFaults   \* bound: lost requests

ASSUME SharesManagerConstants == MaxVolumeFaults \in Nat

VARIABLES
    volume,        \* the active volume on the server, 0 if there is none
    volumeMade,    \* volumes created so far
    myFilesIds,    \* the memo of getRootIDs, 0 if there is none
    shareKeys,     \* [volume -> whose key is in the crypto cache, 0 if none]
    volumeCache,   \* volumes in SharesCache
    caller,        \* [RootCallers -> phase, wanted, ids read, result]
    volumeFaults   \* lost requests so far

sharesVars == <<volume, volumeMade, myFilesIds, shareKeys, volumeCache, caller, volumeFaults>>

VolumeIds == 1 .. 2
NoCaller == [phase |-> "idle", want |-> "ids", ids |-> 0, result |-> 0]

SharesInit ==
    /\ volume \in {0, 1} /\ volumeMade = volume
    /\ myFilesIds = 0 /\ shareKeys = [v \in VolumeIds |-> 0] /\ volumeCache \in {{}, {v \in {1} : volume = 1}}
    /\ caller = [c \in RootCallers |-> NoCaller]
    /\ volumeFaults = 0

ServerSame == UNCHANGED <<volume, volumeMade>>
CacheSame == UNCHANGED <<myFilesIds, shareKeys, volumeCache>>
Moves(c, r) == caller' = [caller EXCEPT ![c] = r]
In(c, phase) == [caller[c] EXCEPT !.phase = phase]

(***************************************************************************)
(* The server: one active volume per user.                                 *)
(***************************************************************************)
PostVolumes == volume' = volumeMade + 1 /\ volumeMade' = volumeMade + 1

OtherCreatesVolume ==
    /\ volume = 0 /\ PostVolumes
    /\ CacheSame /\ UNCHANGED <<caller, volumeFaults>>

(***************************************************************************)
(* getRootIDs                                                              *)
(***************************************************************************)
\* What is done with the ids once they are there: returned, or used for the address
\* of the own share (getMyFilesShareMemberEmailKey).
WithIds(c, v) == [caller[c] EXCEPT !.ids = v, !.phase = IF caller[c].want = "ids" THEN "done" ELSE "address",
                                   !.result = IF caller[c].want = "ids" THEN v ELSE 0]

GetRootIDs(c) ==
    /\ caller[c].phase = "idle"
    /\ \E want \in {"ids", "address"} :
         LET r == [NoCaller EXCEPT !.want = want] IN
         Moves(c, IF myFilesIds # 0
                    THEN [r EXCEPT !.ids = myFilesIds, !.result = IF want = "ids" THEN myFilesIds ELSE 0,
                                   !.phase = IF want = "ids" THEN "done" ELSE "address"]
                    ELSE [r EXCEPT !.phase = "asking"])
    /\ ServerSame /\ CacheSame /\ UNCHANGED volumeFaults

\* getMyFiles answers with the share, or that there is none.
GetMyFiles(c) ==
    /\ caller[c].phase = "asking"
    /\ Moves(c, IF volume = 0 THEN In(c, "creating") ELSE [In(c, "decrypting") EXCEPT !.ids = volume])
    /\ ServerSame /\ CacheSame /\ UNCHANGED volumeFaults

\* decryptRootShare, then the key, the volume and the memo are stored.
StoreMyFiles(c) ==
    LET v == caller[c].ids IN
    /\ caller[c].phase = "decrypting"
    /\ shareKeys' = [shareKeys EXCEPT ![v] = v]
    /\ volumeCache' = volumeCache \cup {v}
    /\ myFilesIds' = v
    /\ Moves(c, WithIds(c, v))
    /\ ServerSame /\ UNCHANGED volumeFaults

\* createVolume: the key made here is kept when the server took it; the memo is not set.
CreateVolume(c) ==
    /\ caller[c].phase = "creating"
    /\ IF volume = 0
         THEN /\ PostVolumes
              /\ shareKeys' = [shareKeys EXCEPT ![volume'] = volume']
              /\ Moves(c, WithIds(c, volume'))
         ELSE /\ ServerSame /\ UNCHANGED shareKeys
              /\ Moves(c, In(c, "failed"))
    /\ UNCHANGED <<myFilesIds, volumeCache, volumeFaults>>

(***************************************************************************)
(* getMyFilesShareMemberEmailKey: from the cached volume, else from the    *)
(* volume's share.                                                         *)
(***************************************************************************)
GetMemberEmailKey(c) ==
    LET v == caller[c].ids IN
    /\ caller[c].phase = "address"
    /\ volumeCache' = volumeCache \cup {v}
    /\ Moves(c, [In(c, "done") EXCEPT !.result = v])
    /\ ServerSame /\ UNCHANGED <<myFilesIds, shareKeys, volumeFaults>>

\* getSharePrivateKey: from the crypto cache, else the share is loaded and decrypted.
GetSharePrivateKey ==
    /\ \E v \in VolumeIds :
         /\ v = volume /\ shareKeys[v] = 0
         /\ shareKeys' = [shareKeys EXCEPT ![v] = v]
    /\ ServerSame /\ UNCHANGED <<myFilesIds, volumeCache, caller, volumeFaults>>

\* A request fails, executed or not: the call throws.
VolumeRequestFails(c) ==
    /\ caller[c].phase \in {"asking", "creating", "decrypting", "address"}
    /\ volumeFaults < MaxVolumeFaults /\ volumeFaults' = volumeFaults + 1
    /\ Moves(c, In(c, "failed"))
    /\ \/ caller[c].phase = "creating" /\ volume = 0 /\ PostVolumes
       \/ ServerSame
    /\ CacheSame

\* The caller asks again.
AsksAgain(c) ==
    /\ caller[c].phase = "failed"
    /\ Moves(c, In(c, "asking"))
    /\ ServerSame /\ CacheSame /\ UNCHANGED volumeFaults

CallerStep(c) ==
    \/ GetMyFiles(c) \/ StoreMyFiles(c) \/ CreateVolume(c) \/ GetMemberEmailKey(c) \/ AsksAgain(c)

SharesNext ==
    \/ OtherCreatesVolume \/ GetSharePrivateKey
    \/ \E c \in RootCallers : GetRootIDs(c) \/ CallerStep(c) \/ VolumeRequestFails(c)

SharesSpec == SharesInit /\ [][SharesNext]_sharesVars

-----------------------------------------------------------------------------
(* Properties.                                                             *)

SharesTypeOK ==
    /\ volume \in 0 .. volumeMade /\ volumeMade \in 0 .. 2 /\ myFilesIds \in 0 .. volumeMade
    /\ volumeCache \subseteq VolumeIds
=============================================================================
