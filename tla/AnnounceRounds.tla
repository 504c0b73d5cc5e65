------------------------- MODULE AnnounceRounds -------------------------
(***************************************************************************)
(* What AnnounceLoop promises about the announces of a torrent, with the   *)
(* goroutines, sockets, datagrams and delays hidden.  The torrent is       *)
(* announced in rounds, one after the other.  A round says started until   *)
(* one was answered, and none is answered before a tracker has heard       *)
(* started (or the client took something else for its answer).  Stopped is *)
(* said at most once, and nothing is said after it.                        *)
(*                                                                         *)
(* The loop may return between any two rounds, and before the last it may  *)
(* say stopped or not: when it must is not promised here.  The comment on  *)
(* the loop has it say stopped whenever it is cancelled, and the code says *)
(* it only after an answered round; either is an implementation.  Tracker  *)
(* implements this specification (Tracker!Announced).                      *)
(***************************************************************************)
EXTENDS Naturals, Sequences

VARIABLES
    said,   \* said[r]: the event of round r
    ends,   \* ends[r]: how round r ended; the last round may be under way
    heard,  \* some tracker has heard started, or seems to have
    over    \* the loop has returned

vars == <<said, ends, heard, over>>

Init == said = <<>> /\ ends = <<>> /\ heard = FALSE /\ over = FALSE

UnderWay == Len(ends) < Len(said)
Answered == \E r \in DOMAIN ends : ends[r] = "answered"
Leaving == \E r \in DOMAIN said : said[r] = "stopped"

Begin(e) ==
    /\ ~over /\ ~UnderWay /\ ~Leaving
    /\ said' = Append(said, e)
    /\ UNCHANGED <<ends, heard, over>>

Say == Begin(IF Answered THEN "regular" ELSE "started")

SayStopped == ends # <<>> /\ Begin("stopped")

Hear ==
    /\ \E r \in DOMAIN said : said[r] = "started"
    /\ heard' = TRUE
    /\ UNCHANGED <<said, ends, over>>

\* the end of the stopped round is the end of the loop
End(end) ==
    /\ ~over /\ UnderWay
    /\ end = "answered" => heard
    /\ ends' = Append(ends, end)
    /\ over' = Leaving
    /\ UNCHANGED <<said, heard>>

Return ==
    /\ ~over /\ ~UnderWay
    /\ over' = TRUE
    /\ UNCHANGED <<said, ends, heard>>

Next ==
    \/ Say \/ SayStopped \/ Hear \/ Return
    \/ \E end \in {"answered", "failed"} : End(end)

Spec == Init /\ [][Next]_vars

============================================================================
