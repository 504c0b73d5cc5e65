-------------------------- MODULE PieceLedger --------------------------
(***************************************************************************)
(* What a torrent's session promises about its pieces, with the pipeline   *)
(* that fetches them hidden: no queues, peers, results or goroutines.      *)
(* Pieces are verified one at a time, each at most once in a run of the    *)
(* program, and a verified piece is known to the scheduler, shown in the   *)
(* bitfield and told to the peers, in this order, before the next one.     *)
(* The files keep what was verified; a crash rebuilds the rest from the    *)
(* record.  Only a settled and complete torrent starts to seed.  Session   *)
(* implements this specification (Session!Ledger).                         *)
(***************************************************************************)
CONSTANT Pieces

VARIABLES
    disk,    \* durable: pieces whose verified bytes are in the files
    record,  \* durable: pieces the fast-resume record claims
    run,     \* pieces verified since the program started
    known,   \* pieces the scheduler counts as complete
    shown,   \* the bitfield that new peers and the API are shown
    told,    \* pieces announced with Have
    status   \* "downloading", "paused" or "seeding"

claims == <<known, shown, told>>
vars == <<disk, record, run, claims, status>>

Init ==
    /\ disk = {} /\ record = {} /\ run = {}
    /\ known = {} /\ shown = {} /\ told = {}
    /\ status = "downloading"

\* every piece verified in this run has been told
Settled == run = told

Verify(i) ==
    /\ Settled /\ i \notin known
    /\ disk' = disk \cup {i}
    /\ run' = run \cup {i}
    /\ UNCHANGED <<record, claims, status>>

Learn(i) ==
    /\ i \in run \ told /\ i \notin known
    /\ known' = known \cup {i}
    /\ UNCHANGED <<disk, record, run, shown, told, status>>

Show ==
    /\ shown # known
    /\ shown' = known
    /\ UNCHANGED <<disk, record, run, known, told, status>>

Tell(i) ==
    /\ i \in (run \ told) \cap shown
    /\ told' = told \cup {i}
    /\ UNCHANGED <<disk, record, run, known, shown, status>>

\* A record claims what this run has verified, and nothing that is not on
\* disk.  What it keeps of earlier runs is between the two.
Records == run \subseteq record' /\ record' \subseteq disk

Record ==
    /\ Records
    /\ UNCHANGED <<disk, run, claims, status>>

Complete ==
    /\ Settled /\ known = Pieces /\ shown = Pieces
    /\ status' = "seeding"
    /\ Records
    /\ UNCHANGED <<disk, run, claims>>

\* clients pause and resume whenever they like, also what is seeding
Ask ==
    /\ status' \in {"paused", "downloading"}
    /\ UNCHANGED <<disk, record, run, claims>>

Forget ==
    /\ record' = {}
    /\ UNCHANGED <<disk, run, claims, status>>

\* the program starts again with what the record claims
Crash ==
    /\ known' = record /\ shown' = record
    /\ told' = {} /\ run' = {}
    /\ status' = "downloading"
    /\ UNCHANGED <<disk, record>>

Next ==
    \/ \E i \in Pieces : Verify(i) \/ Learn(i) \/ Tell(i)
    \/ Show \/ Record \/ Complete \/ Ask \/ Forget \/ Crash

Spec == Init /\ [][Next]_vars

============================================================================
