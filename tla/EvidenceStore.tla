---------------------------- MODULE EvidenceStore ----------------------------
(***************************************************************************)
(* The content-addressed store of captures (bathy-evidence/src/store.rs).  *)
(* put writes a temp file beside the blob's place, syncs it, renames it    *)
(* into place and syncs the directory; several writers, of one process or  *)
(* of several, put the same or different bytes at a time; processes and    *)
(* the machine crash between any two steps.                                *)
(*                                                                         *)
(* A capture is named by its digest, a number.  A file that exists holds a *)
(* digest's bytes or Junk: nothing yet, half of them, or rot.  put creates *)
(* the fan-out directory it needs and syncs the blob's entry in it, but    *)
(* nobody syncs the entry of the directory itself: it is on disk when the  *)
(* file system has written it back, and a power failure before that takes  *)
(* the directory with everything in it.                                    *)
(***************************************************************************)
EXTENDS Integers, FiniteSets

CONSTANTS
    Digests,        \* captures
    Fanout,         \* the fan-out directory of a digest, blobs/xx/yy
    Writers         \* threads that put, of any process

ASSUME StoreAssumption ==
    /\ Digests \subseteq Nat \ {0}
    /\ Fanout \in [Digests -> Nat]

VARIABLES
    temp,       \* temp files: the bytes in the page cache, and whether synced
    blob,       \* what a blob's path holds now, and whether it was synced
    onDisk,     \* what it would hold after a power failure
    made,       \* fan-out directories that exist
    entered,    \* those of them whose own entry is on disk
    putting,    \* put: which step each writer is at, and for which capture
    rotted,     \* history: captures whose blob rotted after its last whole put
    swept       \* history: captures whose directory a power failure took since

storeVars == <<temp, blob, onDisk, made, entered, putting, rotted, swept>>

Absent == 0
Junk   == -1
Bytes  == Digests \cup {Absent, Junk}
NoPut  == [at |-> "none"]
Nowhere == [bytes |-> Absent, synced |-> TRUE]

StoreInit ==
    /\ temp = [n \in Writers |-> Nowhere]
    /\ blob = [d \in Digests |-> Nowhere]
    /\ onDisk = [d \in Digests |-> Absent]
    /\ made = {} /\ entered = {}
    /\ putting = [w \in Writers |-> NoPut]
    /\ rotted = {} /\ swept = {}

\* Mutant of tmp_path: named by the process alone.
tmp_path_pid(w) == CHOOSE n \in Writers : TRUE

\* tmp_path: process id and counter make the name the writer's own.
tmp_path(w) == w

Step(w, from, to) ==
    /\ putting[w].at = from
    /\ putting' = [putting EXCEPT ![w].at = to]

\* create_dir_all, then a temp file; put never looks whether the blob is there
\* already.
PutCreate(w, d) ==
    /\ putting[w] = NoPut
    /\ putting' = [putting EXCEPT ![w] = [at |-> "write", digest |-> d]]
    /\ made' = made \cup {Fanout[d]}
    /\ temp' = [temp EXCEPT ![tmp_path(w)] = [bytes |-> Junk, synced |-> FALSE]]
    /\ UNCHANGED <<blob, onDisk, entered, rotted, swept>>

PutWrite(w) ==
    /\ Step(w, "write", "sync")
    /\ temp' = [temp EXCEPT ![tmp_path(w)] = [bytes |-> putting[w].digest, synced |-> FALSE]]
    /\ UNCHANGED <<blob, onDisk, made, entered, rotted, swept>>

\* Mutant of PutSync: sync_all is left out.
PutUnsynced(w) ==
    /\ Step(w, "sync", "rename")
    /\ UNCHANGED <<temp, blob, onDisk, made, entered, rotted, swept>>

PutSync(w) ==
    /\ Step(w, "sync", "rename")
    /\ temp' = [temp EXCEPT ![tmp_path(w)].synced = TRUE]
    /\ UNCHANGED <<blob, onDisk, made, entered, rotted, swept>>

\* What a power failure leaves of a file.
Survives(file) == IF file.synced THEN file.bytes ELSE Junk

\* Atomic for readers at once; after a power failure either file may be there.
PutRename(w) ==
    LET d == putting[w].digest
        file == temp[tmp_path(w)]
    IN  /\ Step(w, "rename", "sync_dir")
        /\ file.bytes # Absent
        /\ blob' = [blob EXCEPT ![d] = file]
        /\ onDisk' \in {onDisk, [onDisk EXCEPT ![d] = Survives(file)]}
        /\ temp' = [temp EXCEPT ![tmp_path(w)] = Nowhere]
        /\ UNCHANGED <<made, entered, rotted, swept>>

\* fsync_dir of the blob's own directory, not of those above it; put returns
\* Ok(digest) with this step.
PutSyncDir(w) ==
    LET d == putting[w].digest
    IN  /\ Step(w, "sync_dir", "done")
        /\ onDisk' = [onDisk EXCEPT ![d] = Survives(blob[d])]
        /\ rotted' = IF blob[d].bytes = d THEN rotted \ {d} ELSE rotted
        /\ swept' = swept \ {d}
        /\ UNCHANGED <<temp, blob, made, entered>>

Returned(w) == putting[w].at = "done"

\* get: the bytes under the digest's name, verified against it.
get(d) == CASE blob[d].bytes = Absent -> "not_found"
            [] blob[d].bytes = d      -> "found"
            [] OTHER                  -> "corrupt"

\* The disk decays under a blob.
Rot(d) ==
    /\ blob[d].bytes = d
    /\ blob' = [blob EXCEPT ![d].bytes = Junk]
    /\ onDisk' = [onDisk EXCEPT ![d] = Junk]
    /\ rotted' = rotted \cup {d}
    /\ UNCHANGED <<temp, made, entered, putting, swept>>

\* A process dies with the writers it runs; its temp files stay.
StopWriters(W) == putting' = [w \in Writers |-> IF w \in W THEN NoPut ELSE putting[w]]

\* After a power failure the directories on disk are there, of those that only
\* the page cache held some, and nothing of what was in the others.
PowerFails ==
    \E kept \in SUBSET made :
      LET gone == {d \in Digests : Fanout[d] \notin kept}
      IN  /\ entered \subseteq kept
          /\ made' = kept /\ entered' = kept
          /\ onDisk' = [d \in Digests |-> IF d \in gone THEN Absent ELSE onDisk[d]]
          /\ blob' = [d \in Digests |-> [bytes |-> onDisk'[d], synced |-> TRUE]]
          /\ temp' = [n \in Writers |-> Nowhere]
          /\ swept' = swept \cup {d \in gone : blob[d].bytes # Absent}
          /\ StopWriters(Writers)
          /\ UNCHANGED rotted
=============================================================================
