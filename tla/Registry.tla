---------------------------- MODULE Registry ----------------------------
(***************************************************************************)
(* The engine's map of sessions and its database, as seen by concurrent    *)
(* API requests: Add, AddMagnet with its fetchMetadata goroutine, Remove,  *)
(* Shutdown, a crash and RestoreFromDB.  e.mu protects each access to the  *)
(* map and not the operations, which check, start and record in separate   *)
(* steps.  What a session does with its pieces is in Session.              *)
(***************************************************************************)
EXTENDS Naturals, FiniteSets, Functions

CONSTANTS
    Hashes,       \* info hashes
    MagnetHashes, \* those also added by magnet link
    Clients,      \* API requests that may be under way together
    MaxSessions,  \* bound: sessions created in one run of the program
    MaxRestarts,  \* bound: restarts in a behaviour
    InitMayFail,  \* whether storage.Manager.Init may fail
    Idle          \* a client with no request under way

Ids == 1 .. MaxSessions
NoSession == 0

ASSUME RegistryAssumption ==
    /\ IsFiniteSet(Hashes) /\ Hashes # {} /\ MagnetHashes \subseteq Hashes
    /\ MaxSessions \in Nat /\ Cardinality(Hashes) <= MaxSessions
    /\ MaxRestarts \in Nat /\ InitMayFail \in BOOLEAN
    /\ \A h \in Hashes : Idle # h

VARIABLES
    sessions,  \* Engine.sessions: hash -> session, NoSession when absent
    hash,      \* the torrent each session is for
    kind,      \* "free", "placeholder", "running", "seeding" or "ended"
    quit,      \* session.quit is closed
    fetch,     \* where the placeholder's fetchMetadata goroutine is
    pc,        \* where each client's request is
    req,       \* its info hash
    taken,     \* the session a Remove took out of the map
    torrents,  \* durable: bucket "torrents"
    resume,    \* durable: bucket "fastresume"
    down,      \* Shutdown: "no", "saving", "done" or "panic"
    unsaved,   \* the sessions Shutdown has still to save and stop
    restarts,  \* number of restarts
    doubled,   \* history of this run: torrents two Adds were past the check for
    undone     \* history of this run: torrents whose record a Remove deleted
               \* when an Add had entered them again

sessVars == <<hash, kind, quit, fetch>>
reqVars  == <<pc, req, taken>>
diskVars == <<torrents, resume>>
downVars == <<down, unsaved, restarts>>
histVars == <<doubled, undone>>
vars == <<sessions, sessVars, reqVars, diskVars, downVars, histVars>>

Init ==
    /\ sessions = [h \in Hashes |-> NoSession]
    /\ hash = [i \in Ids |-> CHOOSE h \in Hashes : TRUE]
    /\ kind = [i \in Ids |-> "free"]
    /\ quit = [i \in Ids |-> FALSE]
    /\ fetch = [i \in Ids |-> "none"]
    /\ pc = [t \in Clients |-> "idle"]
    /\ req = [t \in Clients |-> Idle]
    /\ taken = [t \in Clients |-> NoSession]
    /\ torrents = {} /\ resume = {}
    /\ down = "no" /\ unsaved = {} /\ restarts = 0
    /\ doubled = {} /\ undone = {}

\* Shutdown holds e.mu from its first line to its last; after it the database
\* is closed, and nothing the program still does leaves a trace
CanLock == down = "no"
Alive   == down \in {"no", "saving"}

Unused(i) == kind[i] = "free" /\ \A j \in Ids : j < i => kind[j] # "free"

\* the session object startSession builds and the goroutine it starts
NewSession(i, h, k) ==
    /\ Unused(i)
    /\ hash' = [hash EXCEPT ![i] = h]
    /\ kind' = [kind EXCEPT ![i] = k]

----------------------------------------------------------------------------
\* Add: the check, the start of the session, the record.

Ask(t, from, to, h) ==
    /\ Alive /\ pc[t] = from
    /\ pc' = [pc EXCEPT ![t] = to]
    /\ req' = [req EXCEPT ![t] = IF to = "idle" THEN Idle ELSE h]

\* the Adds of a torrent that are past the check and have not inserted it
Starting(h) == {t \in Clients : pc[t] = "start" /\ req[t] = h}

\* (mutant) no look at the map before the start
AddUnchecked(t, h) ==
    /\ CanLock
    /\ Ask(t, "idle", "start", h)
    /\ doubled' = doubled \cup {g \in {h} : Starting(h) # {}}
    /\ UNCHANGED <<sessions, sessVars, taken, diskVars, downVars, undone>>

AddCheck(t, h) ==
    /\ CanLock
    /\ sessions[h] = NoSession
    /\ Ask(t, "idle", "start", h)
    /\ doubled' = doubled \cup {g \in {h} : Starting(h) # {}}
    /\ UNCHANGED <<sessions, sessVars, taken, diskVars, downVars, undone>>

\* Init failed: the error goes back to the client
AddFails(t) ==
    /\ InitMayFail
    /\ Ask(t, "start", "idle", req[t])
    /\ UNCHANGED <<sessions, sessVars, taken, diskVars, downVars, histVars>>

AddStart(t) ==
    /\ CanLock
    /\ Ask(t, "start", "put", req[t])
    /\ \E i \in Ids :
        /\ NewSession(i, req[t], "running")
        /\ sessions' = [sessions EXCEPT ![req[t]] = i]
    /\ UNCHANGED <<quit, fetch, taken, diskVars, downVars, histVars>>

AddPut(t) ==
    /\ torrents' = torrents \cup {req[t]}
    /\ Ask(t, "put", "idle", req[t])
    /\ UNCHANGED <<sessions, sessVars, taken, resume, downVars, histVars>>

\* AddMagnet checks and inserts its placeholder under one lock
AddMagnet(h) ==
    /\ CanLock /\ h \in MagnetHashes
    /\ sessions[h] = NoSession
    /\ \E i \in Ids :
        /\ NewSession(i, h, "placeholder")
        /\ sessions' = [sessions EXCEPT ![h] = i]
        /\ fetch' = [fetch EXCEPT ![i] = "fetching"]
    /\ UNCHANGED <<quit, reqVars, diskVars, downVars, histVars>>

----------------------------------------------------------------------------
\* fetchMetadata of placeholder i.

Fetch(i, from, to) ==
    /\ Alive /\ fetch[i] = from
    /\ fetch' = [fetch EXCEPT ![i] = to]

\* metadata arrived and parsed; the select may prefer it to a cancelled context
FetchResult(i) ==
    /\ Fetch(i, "fetching", "check")
    /\ UNCHANGED <<sessions, hash, kind, quit, reqVars, diskVars, downVars, histVars>>

\* cancelled by quit, out of time, or metadata that does not parse: StateError
FetchGivesUp(i) ==
    /\ Fetch(i, "fetching", "done")
    /\ UNCHANGED <<sessions, hash, kind, quit, reqVars, diskVars, downVars, histVars>>

FetchCheck(i) ==
    /\ CanLock
    /\ Fetch(i, "check", IF sessions[hash[i]] = i THEN "delete" ELSE "done")
    /\ UNCHANGED <<sessions, hash, kind, quit, reqVars, diskVars, downVars, histVars>>

\* deletes whatever the hash names by now
FetchDelete(i) ==
    /\ CanLock
    /\ Fetch(i, "delete", "start")
    /\ sessions' = [sessions EXCEPT ![hash[i]] = NoSession]
    /\ UNCHANGED <<hash, kind, quit, reqVars, diskVars, downVars, histVars>>

FetchStart(i) ==
    /\ CanLock
    /\ Fetch(i, "start", "put")
    /\ \E j \in Ids :
        /\ NewSession(j, hash[i], "running")
        /\ sessions' = [sessions EXCEPT ![hash[i]] = j]
    /\ UNCHANGED <<quit, reqVars, diskVars, downVars, histVars>>

\* startSessionReusing failed: the placeholder goes back, in StateError
FetchReinsert(i) ==
    /\ CanLock /\ InitMayFail
    /\ Fetch(i, "start", "done")
    /\ sessions' = [sessions EXCEPT ![hash[i]] = i]
    /\ UNCHANGED <<hash, kind, quit, reqVars, diskVars, downVars, histVars>>

FetchPut(i) ==
    /\ Fetch(i, "put", "done")
    /\ torrents' = torrents \cup {hash[i]}
    /\ UNCHANGED <<sessions, hash, kind, quit, reqVars, resume, downVars, histVars>>

----------------------------------------------------------------------------
\* Remove: the map, quit (with Stop and Close of its parts), the records.

\* (mutant) a Remove that does not find the torrent goes on
RemoveUnchecked(t, h) ==
    /\ CanLock
    /\ sessions' = [sessions EXCEPT ![h] = NoSession]
    /\ taken' = [taken EXCEPT ![t] = sessions[h]]
    /\ Ask(t, "idle", "stop", h)
    /\ UNCHANGED <<sessVars, diskVars, downVars, histVars>>

\* (mutant) the entry stays in the map until the session has stopped
RemoveEntryLate(t, h) ==
    /\ CanLock
    /\ sessions[h] # NoSession
    /\ taken' = [taken EXCEPT ![t] = sessions[h]]
    /\ Ask(t, "idle", "stop", h)
    /\ UNCHANGED <<sessions, sessVars, diskVars, downVars, histVars>>

RemoveEntry(t, h) ==
    /\ CanLock
    /\ sessions[h] # NoSession
    /\ sessions' = [sessions EXCEPT ![h] = NoSession]
    /\ taken' = [taken EXCEPT ![t] = sessions[h]]
    /\ Ask(t, "idle", "stop", h)
    /\ UNCHANGED <<sessVars, diskVars, downVars, histVars>>

\* close(sess.quit) of a channel that is closed already panics; the router's
\* Recoverer ends that request there
RemoveStop(t) ==
    /\ Ask(t, "stop", IF quit[taken[t]] THEN "idle" ELSE "delete", req[t])
    /\ quit' = [quit EXCEPT ![taken[t]] = TRUE]
    /\ taken' = [taken EXCEPT ![t] = NoSession]
    /\ UNCHANGED <<sessions, hash, kind, fetch, diskVars, downVars, histVars>>

\* a torrent that is in the map, or that an Add has put there and not recorded
Entered(h) == sessions[h] # NoSession \/ \E s \in Clients : pc[s] = "put" /\ req[s] = h

\* (mutant) only the fast-resume data is deleted
RemoveResumeOnly(t) ==
    /\ Ask(t, "delete", "idle", req[t])
    /\ resume' = resume \ {req[t]}
    /\ undone' = undone \cup {h \in {req[t]} : Entered(h)}
    /\ UNCHANGED <<sessions, sessVars, taken, torrents, downVars, doubled>>

RemoveRecord(t) ==
    /\ Ask(t, "delete", "idle", req[t])
    /\ torrents' = torrents \ {req[t]}
    /\ resume' = resume \ {req[t]}
    /\ undone' = undone \cup {h \in {req[t]} : Entered(h)}
    /\ UNCHANGED <<sessions, sessVars, taken, downVars, doubled>>

----------------------------------------------------------------------------
\* A session's own loop: the ticker, the last piece, quit.

SaveResume(i) ==
    /\ kind[i] = "running" /\ Alive
    /\ resume' = resume \cup {hash[i]}
    /\ UNCHANGED <<sessions, sessVars, reqVars, torrents, downVars, histVars>>

Complete(i) ==
    /\ Alive /\ kind[i] = "running"
    /\ resume' = resume \cup {hash[i]}
    /\ kind' = [kind EXCEPT ![i] = "seeding"]
    /\ UNCHANGED <<sessions, hash, quit, fetch, reqVars, torrents, downVars, histVars>>

SessionQuit(i) ==
    /\ Alive /\ kind[i] \in {"running", "seeding"} /\ quit[i]
    /\ kind' = [kind EXCEPT ![i] = "ended"]
    /\ UNCHANGED <<sessions, hash, quit, fetch, reqVars, diskVars, downVars, histVars>>

----------------------------------------------------------------------------
\* Shutdown, and the next start of the program.

ShutdownBegin ==
    /\ down = "no"
    /\ down' = "saving"
    /\ unsaved' = {sessions[h] : h \in Hashes} \ {NoSession}
    /\ UNCHANGED <<sessions, sessVars, reqVars, diskVars, restarts, histVars>>

\* dbSaveFastResume reads sess.storage, which a placeholder has not: the
\* program ends in a panic
ShutdownSave(i) ==
    /\ down = "saving" /\ i \in unsaved
    /\ unsaved' = unsaved \ {i}
    /\ IF kind[i] = "placeholder"
       THEN down' = "panic" /\ UNCHANGED resume
       ELSE resume' = resume \cup {hash[i]} /\ UNCHANGED down
    /\ UNCHANGED <<sessions, sessVars, reqVars, torrents, restarts, histVars>>

ShutdownEnd ==
    /\ down = "saving" /\ unsaved = {}
    /\ down' = "done"
    /\ UNCHANGED <<sessions, sessVars, reqVars, diskVars, unsaved, restarts, histVars>>

\* The program ends, by Shutdown or by a crash at any point, and starts
\* again: RestoreFromDB starts a session for each record whose Init succeeds.
Restart ==
    /\ restarts < MaxRestarts
    /\ restarts' = restarts + 1
    /\ \E R \in {S \in SUBSET torrents : InitMayFail \/ S = torrents} : \E o \in Bijection(1 .. Cardinality(R), R) :
        /\ sessions' = [h \in Hashes |-> IF h \in R THEN CHOOSE i \in DOMAIN o : o[i] = h
                                        ELSE NoSession]
        /\ kind' = [i \in Ids |-> IF i \in DOMAIN o THEN "running" ELSE "free"]
        /\ hash' = [i \in Ids |-> IF i \in DOMAIN o THEN o[i] ELSE CHOOSE h \in Hashes : TRUE]
    /\ quit' = [i \in Ids |-> FALSE]
    /\ fetch' = [i \in Ids |-> "none"]
    /\ pc' = [t \in Clients |-> "idle"]
    /\ req' = [t \in Clients |-> Idle]
    /\ taken' = [t \in Clients |-> NoSession]
    /\ down' = "no" /\ unsaved' = {}
    /\ doubled' = {} /\ undone' = {}
    /\ UNCHANGED diskVars

Next ==
    \/ \E t \in Clients :
        \/ \E h \in Hashes : AddCheck(t, h) \/ RemoveEntry(t, h)
        \/ AddFails(t) \/ AddStart(t) \/ AddPut(t)
        \/ RemoveStop(t) \/ RemoveRecord(t)
    \/ \E h \in Hashes : AddMagnet(h)
    \/ \E i \in Ids :
        \/ FetchResult(i) \/ FetchGivesUp(i) \/ FetchCheck(i) \/ FetchDelete(i)
        \/ FetchStart(i) \/ FetchReinsert(i) \/ FetchPut(i)
        \/ SaveResume(i) \/ Complete(i) \/ SessionQuit(i)
        \/ ShutdownSave(i)
    \/ ShutdownBegin \/ ShutdownEnd \/ Restart

Spec == Init /\ [][Next]_vars

----------------------------------------------------------------------------
(***************************************************************************)
(* Properties.                                                             *)
(***************************************************************************)

\* Every variable stays in its type.
TypeOK ==
    /\ sessions \in [Hashes -> Ids \cup {NoSession}]
    /\ hash \in [Ids -> Hashes]
    /\ kind \in [Ids -> {"free", "placeholder", "running", "seeding", "ended"}]
    /\ quit \in [Ids -> BOOLEAN]
    /\ fetch \in [Ids -> {"none", "fetching", "check", "delete", "start", "put", "done"}]
    /\ pc \in [Clients -> {"idle", "start", "put", "stop", "delete"}]
    /\ req \in [Clients -> Hashes \cup {Idle}]
    /\ taken \in [Clients -> Ids \cup {NoSession}]
    /\ \A t \in Clients : pc[t] = "stop" => taken[t] \in Ids
    /\ torrents \subseteq Hashes /\ resume \subseteq Hashes
    /\ down \in {"no", "saving", "done", "panic"}
    /\ unsaved \subseteq Ids
    /\ restarts \in 0 .. MaxRestarts
    /\ doubled \subseteq Hashes /\ undone \subseteq Hashes

Plain == Hashes \ MagnetHashes

At(h) == {i \in Ids : kind[i] \in {"running", "seeding"} /\ hash[i] = h}

\* sessions of h that download or serve and that nothing has told to stop;
\* a Remove that took one is about to
Active(h) == {i \in At(h) : ~quit[i]} \ {taken[t] : t \in Clients}

\* a session in the map has not been told to quit
RegisteredIsOpen ==
    \A h \in Hashes : sessions[h] # NoSession /\ kind[sessions[h]] # "placeholder" =>
        ~quit[sessions[h]]

\* one that a Remove took out has not either, and is that Remove's alone
TakenIsOpen ==
    \A t \in Clients : taken[t] # NoSession /\ kind[taken[t]] # "placeholder" =>
        /\ ~quit[taken[t]]
        /\ \A s \in Clients : taken[s] = taken[t] => s = t

\* Whatever requests are under way together, the quit channel of a session is
\* closed once: it is open while the session is in the map, and Remove
\* (engine.go) never closes it a second time, which would panic.  Only a
\* magnet's placeholder, which fetchMetadata may put back, is not covered.
QuitClosedOnce == RegisteredIsOpen /\ TakenIsOpen

\* However many requests overlap, a torrent that was never a magnet has no
\* session but the one in the map, so that nothing downloads into the same
\* files unseen and what Remove took away does not come back - unless two Adds
\* of it were past the check (engine.go:114) together, the one way to leave a
\* session behind that nothing can stop.
OnlyRegisteredRuns ==
    \A h \in Plain \ doubled : Active(h) = {sessions[h]} \ {NoSession}

\* With no request under way for it, such a torrent is in the map exactly when
\* its record is in the database, so that a restart brings back what was there
\* and nothing that was removed, however its Adds and Removes overlapped -
\* unless a Remove came to delete the record (engine.go:408) after an Add had
\* entered the torrent again.  Only a start that could not open the files
\* leaves a record without an entry.
RegisteredIsRecorded ==
    \A h \in Plain \ undone :
        Alive /\ (\A t \in Clients : req[t] # h) =>
            /\ sessions[h] # NoSession => h \in torrents
            /\ h \in torrents =>
                   sessions[h] # NoSession \/ (InitMayFail /\ restarts > 0)

----------------------------------------------------------------------------
\* The inductive strengthening the proofs use.

\* what is free is fresh, and a request is what its place says
Coherence ==
    /\ \A i \in Ids : kind[i] = "free" =>
           /\ ~quit[i] /\ fetch[i] = "none"
           /\ \A h \in Hashes : sessions[h] # i
           /\ \A t \in Clients : taken[t] # i
    /\ \A i \in Ids : fetch[i] # "none" => kind[i] = "placeholder"
    /\ \A h \in Hashes : sessions[h] # NoSession => hash[sessions[h]] = h
    /\ \A t \in Clients : pc[t] = "idle" <=> req[t] = Idle
    /\ \A t \in Clients : taken[t] # NoSession =>
           pc[t] = "stop" /\ hash[taken[t]] = req[t]

\* a session that was taken out of the map does not come back
TakenIsGone ==
    \A t \in Clients : \A h \in Hashes :
        taken[t] # NoSession /\ kind[taken[t]] # "placeholder" => sessions[h] # taken[t]

\* torrents that never were magnets are only ever started by Add, and by one
\* at a time unless two were past the check together
PlainSessions ==
    /\ \A i \in Ids : kind[i] = "placeholder" => hash[i] \in MagnetHashes
    /\ \A h \in Plain \ doubled : \A t \in Starting(h) :
           sessions[h] = NoSession /\ Starting(h) = {t}

\* requests that will bring the record after the map
Removing(h) == \E t \in Clients : req[t] = h /\ pc[t] \in {"stop", "delete"}
Putting(h)  == \E t \in Clients : req[t] = h /\ pc[t] = "put"

\* where map and database differ, a request is under way that mends it: an
\* entry without a record has an Add that will put it, a record without an
\* entry, or an Add about to make one, a Remove that will delete it
Recorded ==
    \A h \in Plain \ undone :
        /\ sessions[h] # NoSession => h \in torrents \/ Putting(h)
        /\ sessions[h] = NoSession /\ Putting(h) => Removing(h)
        /\ sessions[h] = NoSession /\ h \in torrents =>
               Removing(h) \/ (InitMayFail /\ restarts > 0)

IInv == TypeOK /\ Coherence /\ TakenIsGone /\ RegisteredIsOpen
PlainInv == IInv /\ PlainSessions /\ OnlyRegisteredRuns /\ Recorded

============================================================================
