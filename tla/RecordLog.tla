------------------------------ MODULE RecordLog ------------------------------
(***************************************************************************)
(* EncryptedRecordLog (storage/record_log.rs), the append-only file under  *)
(* every sidecar store, on a disk that may fail any write or sync and lose *)
(* what was not synced.  A content is the set of whole records in a file   *)
(* and whether bytes of a further frame follow them.  disk holds every     *)
(* content a power loss may leave in the file the path names, old those of *)
(* the files it would name again if its last renames were lost.            *)
(***************************************************************************)
EXTENDS Naturals, FiniteSets

CONSTANTS
    Records,     \* the records callers may store, each once
    MaxCrashes   \* bound: times the process ends

ASSUME RecordAssumption == MaxCrashes \in Nat

VARIABLES
    phase,     \* "closed", "creating" the file, "open", or "poisoned": open, but a
               \* failed append could not be rolled back
    file,      \* the content as the process sees it
    disk, old, \* the contents a power loss may leave
    boundary,  \* rollback_boundary: the records before the append that poisoned
    index,     \* the records the caller was told are stored
    acked,     \* those a durable call acknowledged, and no rewrite left out
    batches,   \* batches stored in one replacement, and not since split
    refused,   \* records whose append failed on this handle
    used,      \* every record passed in so far
    crashes

vars == <<phase, file, disk, old, boundary, index, acked, batches, refused, used, crashes>>
ghosts == <<acked, batches, used>>

\* Not there yet; there without its header; whole records and perhaps a torn one.
Absent == [state |-> "absent", recs |-> {}]
Blank == [state |-> "blank", recs |-> {}]
Whole(recs) == [state |-> "whole", recs |-> recs]
Torn(recs) == [state |-> "torn", recs |-> recs]

Contents == [state : {"absent", "blank", "whole", "torn"}, recs : SUBSET Records]

Init ==
    /\ phase = "closed"
    /\ file = Absent
    /\ disk = {Absent}
    /\ old = {}
    /\ boundary = {}
    /\ index = {}
    /\ acked = {}
    /\ batches = {}
    /\ refused = {}
    /\ used = {}
    /\ crashes = 0

-----------------------------------------------------------------------------
\* open_with_visitor on a new path: create_new, then the header, then syncs of
\* the file and of its directory.
Create ==
    /\ phase = "closed"
    /\ file = Absent
    /\ phase' = "creating"
    /\ file' = Blank
    /\ disk' = {Blank, Whole({})}
    /\ old' = old \cup {Absent}
    /\ UNCHANGED <<boundary, index, refused, ghosts, crashes>>

WriteHeader ==
    /\ phase = "creating"
    /\ \/ /\ phase' = "open"
          /\ file' = Whole({})
          /\ disk' = {Whole({})}
          /\ old' = {}
       \/ /\ phase' = "closed"
          /\ file' \in {Blank, Whole({})}
          /\ UNCHANGED <<disk, old>>
    /\ index' = {}
    /\ refused' = {}
    /\ UNCHANGED <<boundary, ghosts, crashes>>

\* load: the whole records are read.  A torn tail is cut off and the file
\* synced, or the open fails.  A file without its header does not open.
load ==
    /\ phase = "closed"
    /\ file.state \in {"whole", "torn"}
    /\ \/ /\ phase' = "open"
          /\ file' = Whole(file.recs)
          /\ disk' = IF file.state = "torn" THEN {file'} ELSE disk
       \/ /\ file.state = "torn"
          /\ file' \in {file, Whole(file.recs)}
          /\ disk' = disk \cup {file'}
          /\ UNCHANGED phase
    /\ index' = file.recs
    /\ refused' = {}
    /\ UNCHANGED <<old, boundary, ghosts, crashes>>

Healthy == phase = "open"

\* The frame of a record at the end of the file; behind a torn frame it cannot
\* be read.
Framed(r) == IF file.state = "torn" THEN file ELSE Whole(file.recs \cup {r})
Partial == Torn(file.recs)

\* Mutant: only the file is synced.
append_durable_FileOnly(r) ==
    /\ Healthy
    /\ r \notin used
    /\ file' = Framed(r)
    /\ disk' = {file'}
    /\ index' = index \cup {r}
    /\ acked' = acked \cup {r}
    /\ used' = used \cup {r}
    /\ UNCHANGED <<phase, old, boundary, batches, refused, crashes>>

\* append_with, durable: the frame, the file and the directory are synced.
append_durable(r) ==
    /\ Healthy
    /\ r \notin used
    /\ file' = Framed(r)
    /\ disk' = {file'}
    /\ old' = {}
    /\ index' = index \cup {r}
    /\ acked' = acked \cup {r}
    /\ used' = used \cup {r}
    /\ UNCHANGED <<phase, boundary, batches, refused, crashes>>

\* append_with, not durable: written and flushed, not synced.
append(r) ==
    /\ Healthy
    /\ r \notin used
    /\ file' = Framed(r)
    /\ disk' = disk \cup {Partial, Framed(r)}
    /\ index' = index \cup {r}
    /\ used' = used \cup {r}
    /\ UNCHANGED <<phase, old, boundary, acked, batches, refused, crashes>>

\* Mutant: the cut is not synced.
append_fails_Unsynced(r) ==
    /\ Healthy
    /\ r \notin used
    /\ used' = used \cup {r}
    /\ refused' = refused \cup {r}
    /\ disk' = disk \cup {Partial, Framed(r)}
    /\ UNCHANGED <<phase, file, old, boundary, index, acked, batches, crashes>>

\* append_with, failing: the frame is written in part or whole, perhaps synced,
\* then cut off again and the cut synced; if that fails too the handle is
\* poisoned.
append_fails(r) ==
    /\ Healthy
    /\ r \notin used
    /\ used' = used \cup {r}
    /\ refused' = refused \cup {r}
    /\ \/ /\ disk' = {file}
          /\ UNCHANGED <<phase, file, boundary>>
       \/ /\ \/ /\ file' \in {file, Partial, Framed(r)}
                /\ disk' = disk \cup {Partial, Framed(r)}
             \/ /\ file' \in {file, Framed(r)}
                /\ disk' = {file', Framed(r)}
          /\ phase' = "poisoned"
          /\ boundary' = file.recs
    /\ UNCHANGED <<old, index, acked, batches, crashes>>

\* recover_failed_append: cut back to the boundary and sync, or fail again.
recover_failed_append ==
    /\ phase = "poisoned"
    /\ file' = Whole(boundary)
    /\ \/ /\ disk' = {file'}
          /\ phase' = "open"
       \/ /\ disk' = disk \cup {file'}
          /\ UNCHANGED phase
    /\ UNCHANGED <<old, boundary, index, refused, ghosts, crashes>>

\* sync: the file, then its directory.
sync ==
    /\ Healthy
    /\ disk' = {file}
    /\ \/ old' = {} /\ acked' = index
       \/ UNCHANGED <<old, acked>>
    /\ UNCHANGED <<phase, file, boundary, index, batches, refused, used, crashes>>

-----------------------------------------------------------------------------
Kept(keep) == {b \in batches : b \subseteq keep}

\* rewrite, and append_batch_atomic when all is kept: a synced temporary file is
\* renamed over the log and the handle moves to it.  The sync of the directory
\* is best effort.  A failure up to the rename changes nothing.
replace(keep, fresh) ==
    /\ Healthy
    /\ fresh \cap used = {}
    /\ file' = Whole(keep \cup fresh)
    /\ disk' = {file'}
    /\ old' \in {{}, old \cup disk}
    /\ index' = keep \cup fresh
    /\ acked' = acked \cap keep
    /\ batches' = Kept(keep) \cup {fresh}
    /\ used' = used \cup fresh
    /\ UNCHANGED <<phase, boundary, refused, crashes>>

\* The process ends, in the middle of anything: the operating system keeps what
\* was written, or the power fails.
Exit(kept) ==
    /\ phase # "closed"
    /\ crashes < MaxCrashes
    /\ crashes' = crashes + 1
    /\ phase' = "closed"
    /\ \/ kept /\ UNCHANGED <<file, disk, old>>
       \/ /\ ~kept
          /\ file' \in disk \cup old
          /\ disk' = {file'}
          /\ old' = {}
    /\ UNCHANGED <<boundary, index, refused, ghosts>>

Next ==
    \/ Create \/ WriteHeader \/ load \/ recover_failed_append \/ sync
    \/ \E r \in Records : append(r) \/ append_durable(r) \/ append_fails(r)
    \/ \E keep \in SUBSET index, fresh \in SUBSET Records : replace(keep, fresh)
    \/ \E kept \in BOOLEAN : Exit(kept)

Spec == Init /\ [][Next]_vars

-----------------------------------------------------------------------------
\* Well-formed contents; the handle is on the file the path names.
TypeOK ==
    /\ phase \in {"closed", "creating", "open", "poisoned"}
    /\ file \in disk
    /\ disk \cup old \subseteq Contents
    /\ boundary \subseteq Records /\ index \subseteq Records /\ acked \subseteq Records
    /\ refused \subseteq Records /\ used \subseteq Records
    /\ batches \subseteq SUBSET Records
    /\ crashes \in 0 .. MaxCrashes

\* What callers were told agrees with the file: it holds their records and no
\* others and no torn bytes, and a poisoned handle will be cut back to that.
IndexMatchesFile ==
    /\ phase = "open" => file = Whole(index)
    /\ phase = "poisoned" => boundary = index

\* A record acknowledged as durable is readable after a power loss at any later
\* moment, also when a rename before it was never synced, and until a rewrite
\* leaves it out.
DurableSurvives == \A c \in disk \cup old : acked \subseteq c.recs

\* A batch stored by replacement is in the file whole or not at all.
BatchWhole == \A c \in disk \cup old, b \in batches : b \subseteq c.recs \/ b \cap c.recs = {}

\* A record whose append failed does not appear later on a healthy handle, not
\* even after a power loss: the cut was synced.
FailedStaysOut ==
    phase = "open" =>
        \A c \in disk \cup old : refused \cap c.recs = {}

\* What callers were told holds, through every failed write, cut, sync and
\* replacement (append, recover_failed_append, replace): the index is the file,
\* failed appends stay out, batches are whole.
AnswersHold == IndexMatchesFile /\ BatchWhole /\ FailedStaysOut
=============================================================================
