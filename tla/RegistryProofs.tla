-------------------------- MODULE RegistryProofs --------------------------
(***************************************************************************)
(* Proofs about the engine's map of sessions.  IInv is inductive for any   *)
(* number of torrents and of requests under way; PlainInv adds what holds  *)
(* of torrents that were never magnets.                                    *)
(***************************************************************************)
EXTENDS Registry, TLAPS, FiniteSetTheorems

Kinds == {"free", "placeholder", "running", "seeding", "ended"}
Fetches == {"none", "fetching", "check", "delete", "start", "put", "done"}
Places == {"idle", "start", "put", "stop", "delete"}

LEMMA Facts ==
    /\ MaxSessions \in Nat /\ MaxRestarts \in Nat /\ Ids \subseteq Nat
    /\ NoSession \notin Ids /\ Idle \notin Hashes
    /\ (CHOOSE h \in Hashes : TRUE) \in Hashes
    /\ MagnetHashes \subseteq Hashes /\ Plain \subseteq Hashes
BY RegistryAssumption DEF Ids, NoSession, Plain

----------------------------------------------------------------------------
\* The steps that make a session, and those that move a request.

LEMMA NewSessionFacts ==
    ASSUME TypeOK, Coherence, NEW i \in Ids, NEW h \in Hashes, NEW k \in Kinds,
           NewSession(i, h, k)
    PROVE  /\ hash' \in [Ids -> Hashes] /\ kind' \in [Ids -> Kinds]
           /\ hash'[i] = h /\ kind'[i] = k
           /\ \A j \in Ids : j # i => hash'[j] = hash[j] /\ kind'[j] = kind[j]
           /\ kind[i] = "free" /\ ~quit[i] /\ fetch[i] = "none"
           /\ \A g \in Hashes : sessions[g] # i
           /\ \A t \in Clients : taken[t] # i
BY DEF NewSession, Unused, TypeOK, Coherence, Kinds

LEMMA AskFacts ==
    ASSUME TypeOK, NEW t \in Clients, NEW from, NEW to \in Places, NEW h \in Hashes \cup {Idle},
           Ask(t, from, to, h)
    PROVE  /\ Alive /\ pc[t] = from
           /\ pc' \in [Clients -> Places] /\ req' \in [Clients -> Hashes \cup {Idle}]
           /\ pc'[t] = to /\ req'[t] = IF to = "idle" THEN Idle ELSE h
           /\ \A s \in Clients : s # t => pc'[s] = pc[s] /\ req'[s] = req[s]
BY DEF Ask, TypeOK, Places

\* a request that is under way is for a torrent
LEMMA ReqFacts ==
    ASSUME TypeOK, Coherence, NEW t \in Clients, pc[t] # "idle"
    PROVE  req[t] \in Hashes
BY DEF TypeOK, Coherence

LEMMA FetchFacts ==
    ASSUME TypeOK, NEW i \in Ids, NEW from, NEW to \in Fetches, Fetch(i, from, to)
    PROVE  /\ fetch[i] = from /\ fetch' \in [Ids -> Fetches] /\ fetch'[i] = to
           /\ \A j \in Ids : j # i => fetch'[j] = fetch[j]
BY DEF Fetch, TypeOK, Fetches

----------------------------------------------------------------------------
\* Init and Restart.

LEMMA InitInv == Init => IInv
<1> SUFFICES ASSUME Init PROVE IInv
    OBVIOUS
<1>1. /\ sessions \in [Hashes -> Ids \cup {NoSession}]
      /\ hash \in [Ids -> Hashes]
      /\ kind \in [Ids -> Kinds] /\ quit \in [Ids -> BOOLEAN] /\ fetch \in [Ids -> Fetches]
      /\ \A i \in Ids : kind[i] = "free" /\ ~quit[i] /\ fetch[i] = "none"
      /\ \A h \in Hashes : sessions[h] = NoSession
    BY Facts DEF Init, Kinds, Fetches
<1>2. /\ pc \in [Clients -> Places] /\ req \in [Clients -> Hashes \cup {Idle}]
      /\ taken \in [Clients -> Ids \cup {NoSession}]
      /\ \A t \in Clients : pc[t] = "idle" /\ req[t] = Idle /\ taken[t] = NoSession
    BY Facts DEF Init, Places
<1>3. TypeOK
    BY <1>1, <1>2, Facts DEF Init, TypeOK, Kinds, Fetches, Places
<1>4. Coherence /\ TakenIsGone /\ RegisteredIsOpen
    BY <1>1, <1>2, Facts DEF Coherence, TakenIsGone, RegisteredIsOpen
<1> QED BY <1>3, <1>4 DEF IInv

\* what RestoreFromDB builds
LEMMA Restored ==
    ASSUME TypeOK, Restart
    PROVE  \E R \in SUBSET torrents :
             /\ R = torrents \/ InitMayFail
             /\ restarts' > 0 /\ restarts' \in 0 .. MaxRestarts
             /\ sessions' \in [Hashes -> Ids \cup {NoSession}]
             /\ hash' \in [Ids -> Hashes] /\ kind' \in [Ids -> {"running", "free"}]
             /\ \A h \in Hashes : h \in R <=> sessions'[h] # NoSession
             /\ \A h \in R : hash'[sessions'[h]] = h /\ kind'[sessions'[h]] = "running"
             /\ \A i \in Ids : kind'[i] = "running" => hash'[i] \in R /\ sessions'[hash'[i]] = i
<1>1. PICK R \in {S \in SUBSET torrents : InitMayFail \/ S = torrents} :
        \E o \in Bijection(1 .. Cardinality(R), R) :
            /\ sessions' = [h \in Hashes |-> IF h \in R THEN CHOOSE i \in DOMAIN o : o[i] = h
                                            ELSE NoSession]
            /\ kind' = [i \in Ids |-> IF i \in DOMAIN o THEN "running" ELSE "free"]
            /\ hash' = [i \in Ids |-> IF i \in DOMAIN o THEN o[i] ELSE CHOOSE h \in Hashes : TRUE]
    BY DEF Restart
<1>2. PICK o \in Bijection(1 .. Cardinality(R), R) :
            /\ sessions' = [h \in Hashes |-> IF h \in R THEN CHOOSE i \in DOMAIN o : o[i] = h
                                            ELSE NoSession]
            /\ kind' = [i \in Ids |-> IF i \in DOMAIN o THEN "running" ELSE "free"]
            /\ hash' = [i \in Ids |-> IF i \in DOMAIN o THEN o[i] ELSE CHOOSE h \in Hashes : TRUE]
    BY <1>1
<1>3. R \in SUBSET Hashes /\ R \in SUBSET torrents /\ (R = torrents \/ InitMayFail)
    BY <1>1 DEF TypeOK
<1>4. DOMAIN o \subseteq Ids
    <2>1. Cardinality(R) <= Cardinality(Hashes) /\ Cardinality(R) \in Nat
        BY <1>3, RegistryAssumption, FS_Subset, FS_CardinalityType
    <2>2. Cardinality(Hashes) \in Nat /\ Cardinality(Hashes) <= MaxSessions
        BY RegistryAssumption, FS_CardinalityType
    <2>3. DOMAIN o = 1 .. Cardinality(R)
        BY <1>2 DEF Bijection, Injection
    <2> QED BY <2>1, <2>2, <2>3, Facts DEF Ids
<1>5. /\ \A i \in DOMAIN o : o[i] \in R
      /\ \A i, j \in DOMAIN o : o[i] = o[j] => i = j
      /\ \A h \in R : \E i \in DOMAIN o : o[i] = h
    BY <1>2 DEF Bijection, Injection, Surjection, IsInjective
<1> DEFINE place(h) == CHOOSE i \in DOMAIN o : o[i] = h
<1>6. \A h \in R : place(h) \in DOMAIN o /\ o[place(h)] = h
    BY <1>5
<1>7. \A h \in Hashes : sessions'[h] = IF h \in R THEN place(h) ELSE NoSession
    BY <1>2
<1> HIDE DEF place
<1>8. sessions' \in [Hashes -> Ids \cup {NoSession}]
    <2>1. sessions' = [h \in Hashes |-> IF h \in R THEN place(h) ELSE NoSession]
        BY <1>2 DEF place
    <2> QED BY <1>4, <1>6, <2>1
<1>9. hash' \in [Ids -> Hashes] /\ kind' \in [Ids -> {"running", "free"}]
    BY <1>2, <1>3, <1>5, Facts
<1>10. \A h \in Hashes : h \in R <=> sessions'[h] # NoSession
    BY <1>4, <1>6, <1>7, Facts
<1>11. \A h \in R : hash'[sessions'[h]] = h /\ kind'[sessions'[h]] = "running"
    BY <1>2, <1>3, <1>4, <1>6, <1>7
<1>12. \A i \in Ids : kind'[i] = "running" => hash'[i] \in R /\ sessions'[hash'[i]] = i
    BY <1>2, <1>3, <1>5, <1>6, <1>7
<1>13. restarts' > 0 /\ restarts' \in 0 .. MaxRestarts
    BY Facts DEF Restart, TypeOK
<1> QED BY <1>3, <1>8, <1>9, <1>10, <1>11, <1>12, <1>13

LEMMA RestartInv == ASSUME TypeOK, Restart PROVE IInv'
<1>1. PICK R \in SUBSET torrents :
             /\ R = torrents \/ InitMayFail
             /\ restarts' > 0 /\ restarts' \in 0 .. MaxRestarts
             /\ sessions' \in [Hashes -> Ids \cup {NoSession}]
             /\ hash' \in [Ids -> Hashes] /\ kind' \in [Ids -> {"running", "free"}]
             /\ \A h \in Hashes : h \in R <=> sessions'[h] # NoSession
             /\ \A h \in R : hash'[sessions'[h]] = h /\ kind'[sessions'[h]] = "running"
             /\ \A i \in Ids : kind'[i] = "running" => hash'[i] \in R /\ sessions'[hash'[i]] = i
    BY Restored
<1>2. /\ quit' = [i \in Ids |-> FALSE] /\ fetch' = [i \in Ids |-> "none"]
      /\ pc' = [t \in Clients |-> "idle"] /\ req' = [t \in Clients |-> Idle]
      /\ taken' = [t \in Clients |-> NoSession]
      /\ down' = "no" /\ unsaved' = {} /\ torrents' = torrents /\ resume' = resume
      /\ doubled' = {} /\ undone' = {}
    BY DEF Restart, diskVars
<1>3. TypeOK'
    BY <1>1, <1>2, Facts DEF TypeOK
<1>4. TakenIsGone' /\ RegisteredIsOpen'
    BY <1>1, <1>2, Facts DEF TakenIsGone, RegisteredIsOpen
<1>5. Coherence'
    BY <1>1, <1>2, Facts DEF Coherence
<1> QED BY <1>3, <1>4, <1>5 DEF IInv

----------------------------------------------------------------------------
\* Requests: Add, AddMagnet, Remove.

\* the steps that change nothing but where a request is, and the records
LEMMA RequestOnly ==
    ASSUME IInv, NEW t \in Clients, NEW from \in {"idle", "start", "put", "delete"},
           NEW to \in Places \ {"stop"}, NEW h \in Hashes \cup {Idle}, Ask(t, from, to, h),
           to # "idle" => h # Idle,
           UNCHANGED <<sessions, sessVars, taken, downVars>>,
           torrents' \subseteq Hashes, resume' \subseteq Hashes,
           doubled' \subseteq Hashes, undone' \subseteq Hashes
    PROVE  IInv'
<1> USE DEF sessVars, downVars, IInv
<1>1. /\ pc[t] = from
      /\ pc' \in [Clients -> Places] /\ req' \in [Clients -> Hashes \cup {Idle}]
      /\ pc'[t] = to /\ req'[t] = IF to = "idle" THEN Idle ELSE h
      /\ \A s \in Clients : s # t => pc'[s] = pc[s] /\ req'[s] = req[s]
    BY AskFacts
<1>2. \A s \in Clients : pc'[s] = "stop" => pc[s] = "stop"
    BY <1>1
<1>3. TypeOK'
    BY <1>1, <1>2 DEF TypeOK, Places
<1>4. taken[t] = NoSession
    BY <1>1 DEF Coherence
<1>5. Coherence'
    BY <1>1, <1>4 DEF Coherence
<1>6. TakenIsGone' /\ RegisteredIsOpen'
    BY DEF TakenIsGone, RegisteredIsOpen
<1> QED BY <1>3, <1>5, <1>6

\* a new session enters the map under its torrent
LEMMA Enters ==
    ASSUME IInv, NEW i \in Ids, NEW h \in Hashes, NEW k \in Kinds \ {"free"},
           NewSession(i, h, k),
           sessions' = [sessions EXCEPT ![h] = i], UNCHANGED <<quit, taken>>
    PROVE  /\ sessions' \in [Hashes -> Ids \cup {NoSession}]
           /\ hash' \in [Ids -> Hashes] /\ kind' \in [Ids -> Kinds]
           /\ kind'[i] = k /\ hash'[i] = h /\ fetch[i] = "none" /\ kind[i] = "free"
           /\ \A j \in Ids : j # i => hash'[j] = hash[j] /\ kind'[j] = kind[j]
           /\ \A j \in Ids : kind'[j] = "free" =>
                  /\ ~quit'[j] /\ fetch[j] = "none"
                  /\ \A g \in Hashes : sessions'[g] # j
                  /\ \A s \in Clients : taken'[s] # j
           /\ \A g \in Hashes : sessions'[g] # NoSession => hash'[sessions'[g]] = g
           /\ \A s \in Clients : taken[s] # NoSession =>
                  /\ taken[s] \in Ids /\ taken[s] # i
                  /\ pc[s] = "stop" /\ hash'[taken'[s]] = req[s]
           /\ TakenIsGone' /\ RegisteredIsOpen'
<1> USE DEF IInv
<1>1. /\ hash' \in [Ids -> Hashes] /\ kind' \in [Ids -> Kinds]
      /\ hash'[i] = h /\ kind'[i] = k
      /\ \A j \in Ids : j # i => hash'[j] = hash[j] /\ kind'[j] = kind[j]
      /\ kind[i] = "free" /\ ~quit[i] /\ fetch[i] = "none"
      /\ \A g \in Hashes : sessions[g] # i
      /\ \A t \in Clients : taken[t] # i
    BY NewSessionFacts
<1>2. /\ sessions' \in [Hashes -> Ids \cup {NoSession}]
      /\ sessions'[h] = i /\ \A g \in Hashes : g # h => sessions'[g] = sessions[g]
    BY DEF TypeOK
<1>3. /\ sessions \in [Hashes -> Ids \cup {NoSession}]
      /\ taken \in [Clients -> Ids \cup {NoSession}] /\ i # NoSession
    BY Facts DEF TypeOK
<1>4. \A j \in Ids : kind'[j] = "free" =>
                  /\ ~quit'[j] /\ fetch[j] = "none"
                  /\ \A g \in Hashes : sessions'[g] # j
                  /\ \A s \in Clients : taken'[s] # j
    BY <1>1, <1>2 DEF Coherence
<1>5. \A g \in Hashes : sessions'[g] # NoSession => hash'[sessions'[g]] = g
    BY <1>1, <1>2, <1>3 DEF Coherence
<1>6. \A s \in Clients : taken[s] # NoSession =>
                  /\ taken[s] \in Ids /\ taken[s] # i
                  /\ pc[s] = "stop" /\ hash'[taken'[s]] = req[s]
    BY <1>1, <1>3 DEF Coherence
<1>7. TakenIsGone'
    BY <1>1, <1>2, <1>3 DEF TakenIsGone
<1>8. RegisteredIsOpen'
    BY <1>1, <1>2, <1>3 DEF RegisteredIsOpen
<1> QED BY <1>1, <1>2, <1>4, <1>5, <1>6, <1>7, <1>8

LEMMA AddStartInv == ASSUME IInv, NEW t \in Clients, AddStart(t) PROVE IInv'
<1>1. PICK i \in Ids : NewSession(i, req[t], "running") /\ sessions' = [sessions EXCEPT ![req[t]] = i]
    BY DEF AddStart
<1>2. UNCHANGED <<quit, fetch, taken, torrents, resume, down, unsaved, restarts, doubled, undone>>
    BY DEF AddStart, diskVars, downVars, histVars
<1>3. req[t] \in Hashes
    BY ReqFacts DEF AddStart, Ask, IInv
<1>4. /\ pc[t] = "start"
      /\ pc' \in [Clients -> Places] /\ req' \in [Clients -> Hashes \cup {Idle}]
      /\ pc'[t] = "put" /\ req'[t] = req[t]
      /\ \A s \in Clients : s # t => pc'[s] = pc[s] /\ req'[s] = req[s]
    BY <1>3, AskFacts DEF AddStart, IInv, Places
<1>5. /\ sessions' \in [Hashes -> Ids \cup {NoSession}]
      /\ hash' \in [Ids -> Hashes] /\ kind' \in [Ids -> Kinds]
      /\ kind[i] = "free" /\ fetch[i] = "none"
      /\ \A j \in Ids : j # i => hash'[j] = hash[j] /\ kind'[j] = kind[j]
      /\ \A j \in Ids : kind'[j] = "free" =>
             /\ ~quit'[j] /\ fetch[j] = "none"
             /\ \A g \in Hashes : sessions'[g] # j
             /\ \A s \in Clients : taken'[s] # j
      /\ \A g \in Hashes : sessions'[g] # NoSession => hash'[sessions'[g]] = g
      /\ \A s \in Clients : taken[s] # NoSession =>
             /\ taken[s] \in Ids /\ taken[s] # i
             /\ pc[s] = "stop" /\ hash'[taken'[s]] = req[s]
      /\ TakenIsGone' /\ RegisteredIsOpen'
    BY <1>1, <1>2, <1>3, Enters DEF Kinds
<1>6. TypeOK'
    BY <1>2, <1>4, <1>5 DEF IInv, TypeOK, Kinds, Places
<1>7. Coherence'
    <2>1. \A j \in Ids : fetch'[j] # "none" => kind'[j] = "placeholder"
        BY <1>2, <1>5 DEF IInv, Coherence
    <2>2. \A s \in Clients : pc'[s] = "idle" <=> req'[s] = Idle
        BY <1>3, <1>4, Facts DEF IInv, Coherence
    <2> QED BY <1>2, <1>4, <1>5, <2>1, <2>2 DEF Coherence
<1> QED BY <1>5, <1>6, <1>7 DEF IInv

LEMMA AddMagnetInv == ASSUME IInv, NEW h \in Hashes, AddMagnet(h) PROVE IInv'
<1>1. PICK i \in Ids : /\ NewSession(i, h, "placeholder")
                       /\ sessions' = [sessions EXCEPT ![h] = i]
                       /\ fetch' = [fetch EXCEPT ![i] = "fetching"]
    BY DEF AddMagnet
<1>2. UNCHANGED <<quit, pc, req, taken, torrents, resume, down, unsaved, restarts, doubled, undone>>
    BY DEF AddMagnet, reqVars, diskVars, downVars, histVars
<1>3. /\ sessions' \in [Hashes -> Ids \cup {NoSession}]
      /\ hash' \in [Ids -> Hashes] /\ kind' \in [Ids -> Kinds]
      /\ kind'[i] = "placeholder" /\ hash'[i] = h /\ fetch[i] = "none" /\ kind[i] = "free"
      /\ \A j \in Ids : j # i => hash'[j] = hash[j] /\ kind'[j] = kind[j]
      /\ \A j \in Ids : kind'[j] = "free" =>
             /\ ~quit'[j] /\ fetch[j] = "none"
             /\ \A g \in Hashes : sessions'[g] # j
             /\ \A s \in Clients : taken'[s] # j
      /\ \A g \in Hashes : sessions'[g] # NoSession => hash'[sessions'[g]] = g
      /\ \A s \in Clients : taken[s] # NoSession =>
             /\ taken[s] \in Ids /\ taken[s] # i
             /\ pc[s] = "stop" /\ hash'[taken'[s]] = req[s]
      /\ TakenIsGone' /\ RegisteredIsOpen'
    <2>1. "placeholder" \in Kinds \ {"free"}
        BY DEF Kinds
    <2> QED BY <1>1, <1>2, <2>1, Enters
<1>4. /\ fetch' \in [Ids -> Fetches] /\ fetch'[i] = "fetching"
      /\ \A j \in Ids : j # i => fetch'[j] = fetch[j]
    BY <1>1 DEF IInv, TypeOK, Fetches
<1>5. TypeOK'
    BY <1>2, <1>3, <1>4 DEF IInv, TypeOK, Kinds, Fetches
<1>6. Coherence'
    <2>1. \A j \in Ids : kind'[j] = "free" => fetch'[j] = "none"
        BY <1>3, <1>4
    <2>2. \A j \in Ids : fetch'[j] # "none" => kind'[j] = "placeholder"
        BY <1>3, <1>4 DEF IInv, Coherence
    <2> QED BY <1>2, <1>3, <2>1, <2>2 DEF IInv, Coherence
<1> QED BY <1>3, <1>5, <1>6 DEF IInv

LEMMA RemoveEntryInv ==
    ASSUME IInv, NEW t \in Clients, NEW h \in Hashes, RemoveEntry(t, h)
    PROVE  IInv'
<1> DEFINE i == sessions[h]
<1>1. /\ i # NoSession /\ sessions' = [sessions EXCEPT ![h] = NoSession]
      /\ taken' = [taken EXCEPT ![t] = i]
      /\ UNCHANGED <<hash, kind, quit, fetch, torrents, resume, down, unsaved, restarts, doubled, undone>>
    BY DEF RemoveEntry, sessVars, diskVars, downVars, histVars
<1>2. /\ i \in Ids /\ sessions \in [Hashes -> Ids \cup {NoSession}]
      /\ taken \in [Clients -> Ids \cup {NoSession}]
    BY <1>1 DEF IInv, TypeOK
<1> HIDE DEF i
<1>3. /\ pc' \in [Clients -> Places] /\ req' \in [Clients -> Hashes \cup {Idle}]
      /\ pc'[t] = "stop" /\ req'[t] = h
      /\ \A s \in Clients : s # t => pc'[s] = pc[s] /\ req'[s] = req[s]
    BY AskFacts DEF RemoveEntry, IInv, Places
<1>4. /\ sessions' \in [Hashes -> Ids \cup {NoSession}] /\ sessions'[h] = NoSession
      /\ \A g \in Hashes : g # h => sessions'[g] = sessions[g]
      /\ taken' \in [Clients -> Ids \cup {NoSession}] /\ taken'[t] = i
      /\ \A s \in Clients : s # t => taken'[s] = taken[s]
    BY <1>1, <1>2
<1>5. TypeOK'
    BY <1>1, <1>2, <1>3, <1>4 DEF IInv, TypeOK, Places
<1>6. hash[i] = h /\ kind[i] # "free"
    BY <1>1, <1>2 DEF IInv, Coherence, i
<1>7. \A g \in Hashes : sessions'[g] # i
    BY <1>1, <1>2, <1>4, <1>6, Facts DEF IInv, Coherence
<1>8. Coherence'
    <2>1. \A j \in Ids : kind'[j] = "free" =>
                 /\ \A g \in Hashes : sessions'[g] # j
                 /\ \A s \in Clients : taken'[s] # j
        BY <1>1, <1>4, <1>6, Facts DEF IInv, Coherence
    <2>2. \A g \in Hashes : sessions'[g] # NoSession => hash'[sessions'[g]] = g
        BY <1>1, <1>4 DEF IInv, Coherence
    <2>3. \A s \in Clients : pc'[s] = "idle" <=> req'[s] = Idle
        BY <1>3, Facts DEF IInv, Coherence
    <2>4. \A s \in Clients : taken'[s] # NoSession => pc'[s] = "stop" /\ hash'[taken'[s]] = req'[s]
        BY <1>1, <1>3, <1>4, <1>6 DEF IInv, Coherence
    <2> QED BY <1>1, <2>1, <2>2, <2>3, <2>4 DEF IInv, Coherence
<1>9. TakenIsGone'
    BY <1>1, <1>4, <1>7, Facts DEF IInv, TakenIsGone
<1>10. RegisteredIsOpen'
    BY <1>1, <1>4 DEF IInv, RegisteredIsOpen
<1> QED BY <1>5, <1>8, <1>9, <1>10 DEF IInv

LEMMA RemoveStopInv == ASSUME IInv, NEW t \in Clients, RemoveStop(t) PROVE IInv'
<1> DEFINE i == taken[t]
           to == IF quit[i] THEN "idle" ELSE "delete"
<1>1. /\ quit' = [quit EXCEPT ![i] = TRUE] /\ taken' = [taken EXCEPT ![t] = NoSession]
      /\ pc[t] = "stop" /\ Ask(t, "stop", to, req[t])
      /\ UNCHANGED <<sessions, hash, kind, fetch, torrents, resume, down, unsaved, restarts, doubled, undone>>
    BY DEF RemoveStop, Ask, diskVars, downVars, histVars
<1>2. /\ i \in Ids /\ to \in Places /\ to \in {"idle", "delete"}
      /\ taken \in [Clients -> Ids \cup {NoSession}] /\ quit \in [Ids -> BOOLEAN]
    BY <1>1 DEF IInv, TypeOK, Places
<1> HIDE DEF i, to
<1>3. req[t] \in Hashes
    BY <1>1, ReqFacts DEF IInv
<1>4. /\ pc' \in [Clients -> Places] /\ req' \in [Clients -> Hashes \cup {Idle}]
      /\ pc'[t] = to /\ req'[t] = IF to = "idle" THEN Idle ELSE req[t]
      /\ \A s \in Clients : s # t => pc'[s] = pc[s] /\ req'[s] = req[s]
    BY SMTT(20), <1>1, <1>2, <1>3, AskFacts DEF IInv
<1>5. /\ taken' \in [Clients -> Ids \cup {NoSession}] /\ taken'[t] = NoSession
      /\ \A s \in Clients : s # t => taken'[s] = taken[s]
      /\ quit' \in [Ids -> BOOLEAN] /\ \A j \in Ids : j # i => quit'[j] = quit[j]
    BY <1>1, <1>2
<1>6. kind[i] # "free" /\ i # NoSession
    BY <1>2, Facts DEF IInv, Coherence, i
<1>7. TypeOK'
    BY <1>1, <1>2, <1>4, <1>5 DEF IInv, TypeOK, Places
<1>8. Coherence'
    <2>1. \A j \in Ids : kind'[j] = "free" =>
                 /\ ~quit'[j] /\ \A s \in Clients : taken'[s] # j
        BY <1>1, <1>5, <1>6, Facts DEF IInv, Coherence
    <2>2. \A s \in Clients : pc'[s] = "idle" <=> req'[s] = Idle
        BY <1>2, <1>3, <1>4, Facts DEF IInv, Coherence
    <2>3. \A s \in Clients : taken'[s] # NoSession => pc'[s] = "stop" /\ hash'[taken'[s]] = req'[s]
        BY <1>1, <1>4, <1>5 DEF IInv, Coherence
    <2> QED BY <1>1, <2>1, <2>2, <2>3 DEF IInv, Coherence
<1>9. TakenIsGone'
    BY <1>1, <1>5 DEF IInv, TakenIsGone
<1>10. RegisteredIsOpen'
    <2>1. \A h \in Hashes : sessions[h] # NoSession /\ kind[sessions[h]] # "placeholder" =>
              sessions[h] # i /\ sessions[h] \in Ids
        BY <1>6 DEF IInv, TakenIsGone, TypeOK, i
    <2> QED BY <1>1, <1>5, <2>1 DEF IInv, RegisteredIsOpen
<1> QED BY <1>7, <1>8, <1>9, <1>10 DEF IInv

LEMMA RequestInv ==
    ASSUME IInv, NEW t \in Clients
    PROVE  /\ \A h \in Hashes : AddCheck(t, h) => IInv'
           /\ AddFails(t) => IInv'
           /\ AddPut(t) => IInv'
           /\ RemoveRecord(t) => IInv'
<1> USE DEF Places, diskVars, histVars
<1>0. /\ torrents \subseteq Hashes /\ resume \subseteq Hashes /\ req[t] \in Hashes \cup {Idle}
      /\ doubled \subseteq Hashes /\ undone \subseteq Hashes
    BY DEF IInv, TypeOK
<1>1. ASSUME NEW h \in Hashes, AddCheck(t, h) PROVE IInv'
    BY <1>0, <1>1, RequestOnly, Facts DEF AddCheck
<1>2. CASE AddFails(t)
    BY <1>0, <1>2, RequestOnly DEF AddFails
<1>3. CASE AddPut(t)
    <2>1. req[t] \in Hashes
        BY <1>3, ReqFacts DEF AddPut, Ask, IInv
    <2> QED BY <1>0, <1>3, <2>1, RequestOnly DEF AddPut
<1>4. CASE RemoveRecord(t)
    <2>1. req[t] \in Hashes
        BY <1>4, ReqFacts DEF RemoveRecord, Ask, IInv
    <2> QED BY <1>0, <1>4, <2>1, RequestOnly DEF RemoveRecord
<1> QED BY <1>1, <1>2, <1>3, <1>4

----------------------------------------------------------------------------
\* fetchMetadata, the sessions' loops and Shutdown.

LEMMA FetchStartInv == ASSUME IInv, NEW i \in Ids, FetchStart(i) PROVE IInv'
<1>1. PICK j \in Ids : /\ NewSession(j, hash[i], "running")
                       /\ sessions' = [sessions EXCEPT ![hash[i]] = j]
    BY DEF FetchStart
<1>2. UNCHANGED <<quit, pc, req, taken, torrents, resume, down, unsaved, restarts, doubled, undone>>
    BY DEF FetchStart, reqVars, diskVars, downVars, histVars
<1>3. /\ fetch[i] = "start" /\ fetch' \in [Ids -> Fetches] /\ fetch'[i] = "put"
      /\ \A k \in Ids : k # i => fetch'[k] = fetch[k]
    BY FetchFacts DEF FetchStart, IInv, Fetches
<1>4. hash[i] \in Hashes /\ kind[i] = "placeholder"
    BY <1>3 DEF IInv, TypeOK, Coherence
<1>5. /\ sessions' \in [Hashes -> Ids \cup {NoSession}]
      /\ hash' \in [Ids -> Hashes] /\ kind' \in [Ids -> Kinds]
      /\ kind'[j] = "running" /\ hash'[j] = hash[i] /\ fetch[j] = "none" /\ kind[j] = "free"
      /\ \A k \in Ids : k # j => hash'[k] = hash[k] /\ kind'[k] = kind[k]
      /\ \A k \in Ids : kind'[k] = "free" =>
             /\ ~quit'[k] /\ fetch[k] = "none"
             /\ \A g \in Hashes : sessions'[g] # k
             /\ \A s \in Clients : taken'[s] # k
      /\ \A g \in Hashes : sessions'[g] # NoSession => hash'[sessions'[g]] = g
      /\ \A s \in Clients : taken[s] # NoSession =>
             /\ taken[s] \in Ids /\ taken[s] # j
             /\ pc[s] = "stop" /\ hash'[taken'[s]] = req[s]
      /\ TakenIsGone' /\ RegisteredIsOpen'
    <2>1. "running" \in Kinds \ {"free"}
        BY DEF Kinds
    <2> QED BY <1>1, <1>2, <1>4, <2>1, Enters
<1>6. TypeOK'
    BY <1>2, <1>3, <1>5 DEF IInv, TypeOK, Kinds, Fetches
<1>7. Coherence'
    <2>1. \A k \in Ids : kind'[k] = "free" => fetch'[k] = "none"
        BY <1>3, <1>4, <1>5
    <2>2. \A k \in Ids : fetch'[k] # "none" => kind'[k] = "placeholder"
        BY <1>3, <1>4, <1>5 DEF IInv, Coherence
    <2> QED BY <1>2, <1>5, <2>1, <2>2 DEF IInv, Coherence
<1> QED BY <1>5, <1>6, <1>7 DEF IInv

LEMMA FetchInv ==
    ASSUME IInv, NEW i \in Ids, NEW from \in Fetches \ {"none"}, NEW to \in Fetches \ {"none"},
           Fetch(i, from, to), UNCHANGED <<hash, kind, quit, reqVars, downVars, histVars>>,
           \/ sessions' = sessions
           \/ sessions' = [sessions EXCEPT ![hash[i]] = NoSession]
           \/ sessions' = [sessions EXCEPT ![hash[i]] = i],
           torrents' \subseteq Hashes, resume' \subseteq Hashes
    PROVE  IInv'
<1> USE DEF reqVars, downVars, histVars
<1>1. /\ fetch[i] = from /\ fetch' \in [Ids -> Fetches] /\ fetch'[i] = to
      /\ \A j \in Ids : j # i => fetch'[j] = fetch[j]
    BY FetchFacts DEF IInv
<1>2. kind[i] = "placeholder" /\ hash[i] \in Hashes
    BY <1>1 DEF IInv, Coherence, TypeOK
<1>3. /\ sessions' \in [Hashes -> Ids \cup {NoSession}]
      /\ sessions'[hash[i]] \in {sessions[hash[i]], NoSession, i}
      /\ \A g \in Hashes : g # hash[i] => sessions'[g] = sessions[g]
    BY <1>2 DEF IInv, TypeOK
<1>4. TypeOK'
    BY <1>1, <1>3 DEF IInv, TypeOK, Fetches
<1>5. Coherence'
    <2>1. \A j \in Ids : kind'[j] = "free" =>
              fetch'[j] = "none" /\ \A g \in Hashes : sessions'[g] # j
        BY <1>1, <1>2, <1>3, Facts DEF IInv, Coherence
    <2>2. \A j \in Ids : fetch'[j] # "none" => kind'[j] = "placeholder"
        BY <1>1, <1>2 DEF IInv, Coherence
    <2>3. \A g \in Hashes : sessions'[g] # NoSession => hash'[sessions'[g]] = g
        BY <1>2, <1>3 DEF IInv, Coherence
    <2> QED BY <2>1, <2>2, <2>3 DEF IInv, Coherence
<1>6. TakenIsGone'
    BY <1>2, <1>3 DEF IInv, TakenIsGone
<1>7. RegisteredIsOpen'
    BY <1>2, <1>3 DEF IInv, RegisteredIsOpen
<1> QED BY <1>4, <1>5, <1>6, <1>7 DEF IInv

LEMMA FetchStepInv ==
    ASSUME IInv, NEW i \in Ids,
           \/ FetchResult(i) \/ FetchGivesUp(i) \/ FetchCheck(i) \/ FetchDelete(i)
           \/ FetchReinsert(i) \/ FetchPut(i)
    PROVE  IInv'
<1> USE DEF Fetches, diskVars
<1>0. torrents \subseteq Hashes /\ resume \subseteq Hashes /\ hash[i] \in Hashes
    BY DEF IInv, TypeOK
<1>1. CASE FetchResult(i) BY <1>0, <1>1, FetchInv DEF FetchResult
<1>2. CASE FetchGivesUp(i) BY <1>0, <1>2, FetchInv DEF FetchGivesUp
<1>3. CASE FetchCheck(i)
    BY <1>0, <1>3, FetchInv DEF FetchCheck
<1>4. CASE FetchDelete(i) BY <1>0, <1>4, FetchInv DEF FetchDelete
<1>5. CASE FetchReinsert(i) BY <1>0, <1>5, FetchInv DEF FetchReinsert
<1>6. CASE FetchPut(i) BY <1>0, <1>6, FetchInv DEF FetchPut
<1> QED BY <1>1, <1>2, <1>3, <1>4, <1>5, <1>6

\* a session's loop only moves between kinds of real sessions
LEMMA SessionInv ==
    ASSUME IInv, NEW i \in Ids, SaveResume(i) \/ Complete(i) \/ SessionQuit(i)
    PROVE  IInv'
<1>1. /\ UNCHANGED <<sessions, hash, quit, fetch, pc, req, taken, torrents, down, unsaved, restarts,
                      doubled, undone>>
      /\ kind[i] \in {"running", "seeding"} /\ hash[i] \in Hashes
      /\ resume' \in {resume, resume \cup {hash[i]}}
    BY DEF SaveResume, Complete, SessionQuit, sessVars, reqVars, diskVars, downVars, histVars,
           IInv, TypeOK
<1>2. /\ kind' \in [Ids -> Kinds] /\ kind'[i] \in {"running", "seeding", "ended"}
      /\ \A j \in Ids : j # i => kind'[j] = kind[j]
    BY DEF SaveResume, Complete, SessionQuit, sessVars, IInv, TypeOK, Kinds
<1>3. TypeOK'
    BY <1>1, <1>2 DEF IInv, TypeOK, Kinds
<1>4. Coherence'
    BY <1>1, <1>2 DEF IInv, Coherence
<1>5. \A j \in Ids : kind'[j] # "placeholder" => kind[j] # "placeholder"
    BY <1>1, <1>2
<1>6. TakenIsGone' /\ RegisteredIsOpen'
    BY <1>1, <1>5 DEF IInv, TakenIsGone, RegisteredIsOpen, TypeOK
<1> QED BY <1>3, <1>4, <1>6 DEF IInv

LEMMA ShutdownInv ==
    ASSUME IInv, ShutdownBegin \/ ShutdownEnd \/ (\E i \in Ids : ShutdownSave(i))
    PROVE  IInv'
<1>1. /\ UNCHANGED <<sessions, sessVars, reqVars, torrents, restarts, histVars>>
      /\ down' \in {"no", "saving", "done", "panic"} /\ unsaved' \subseteq Ids
      /\ resume' \subseteq Hashes
    BY DEF ShutdownBegin, ShutdownEnd, ShutdownSave, diskVars, IInv, TypeOK
<1>2. TypeOK'
    BY <1>1 DEF IInv, TypeOK, sessVars, reqVars, histVars
<1>3. Coherence' /\ TakenIsGone' /\ RegisteredIsOpen'
    BY <1>1 DEF IInv, Coherence, TakenIsGone, RegisteredIsOpen, sessVars, reqVars
<1> QED BY <1>2, <1>3 DEF IInv

LEMMA StepInv == IInv /\ [Next]_vars => IInv'
<1> SUFFICES ASSUME IInv, [Next]_vars PROVE IInv'
    OBVIOUS
<1>1. CASE UNCHANGED vars
    BY <1>1 DEF vars, sessVars, reqVars, diskVars, downVars, histVars, IInv, TypeOK, Coherence,
                TakenIsGone, RegisteredIsOpen
<1>2. CASE Restart
    BY <1>2, RestartInv DEF IInv
<1> QED BY <1>1, <1>2, AddStartInv, AddMagnetInv, RemoveEntryInv, RemoveStopInv, RequestInv,
           FetchStartInv, FetchStepInv, SessionInv, ShutdownInv DEF Next

LEMMA Invariant == Spec => []IInv
BY InitInv, StepInv, PTL DEF Spec

\* Every variable of the registry keeps its type.
THEOREM TypeCorrect == Spec => []TypeOK
<1>1. IInv => TypeOK
    BY DEF IInv
<1> QED BY <1>1, Invariant, PTL

----------------------------------------------------------------------------
\* Nobody closes the quit channel of a session a second time.

\* steps that neither take a session out of the map nor close a channel: they
\* may forget what was taken, and a session does not become a placeholder
LEMMA OpenFrame ==
    ASSUME TypeOK, TakenIsOpen, UNCHANGED <<quit, taken>>,
           \A i \in Ids : kind'[i] # "placeholder" =>
               kind[i] # "placeholder" \/ \A t \in Clients : taken[t] # i
    PROVE  TakenIsOpen'
BY DEF TypeOK, TakenIsOpen

LEMMA OpenRequest ==
    ASSUME IInv, TakenIsOpen, NEW t \in Clients,
           \/ \E h \in Hashes : AddCheck(t, h) \/ RemoveEntry(t, h)
           \/ AddFails(t) \/ AddStart(t) \/ AddPut(t)
           \/ RemoveStop(t) \/ RemoveRecord(t)
    PROVE  TakenIsOpen'
<1> USE DEF IInv, sessVars
<1>1. CASE (\E h \in Hashes : AddCheck(t, h)) \/ AddFails(t) \/ AddPut(t) \/ RemoveRecord(t)
    BY <1>1, OpenFrame DEF AddCheck, AddFails, AddPut, RemoveRecord
<1>2. CASE AddStart(t)
    <2>1. PICK i \in Ids : NewSession(i, req[t], "running")
        BY <1>2 DEF AddStart
    <2>2. \A s \in Clients : taken[s] # i
        BY <2>1 DEF NewSession, Unused, Coherence
    <2>3. \A j \in Ids : j # i => kind'[j] = kind[j]
        BY <2>1 DEF NewSession, TypeOK
    <2> QED BY <1>2, <2>2, <2>3, OpenFrame DEF AddStart
<1>3. ASSUME NEW h \in Hashes, RemoveEntry(t, h) PROVE TakenIsOpen'
    <2> DEFINE i == sessions[h]
    <2>1. /\ i \in Ids /\ i # NoSession /\ UNCHANGED <<quit, kind>>
          /\ taken'[t] = i /\ \A s \in Clients : s # t => taken'[s] = taken[s]
        BY <1>3, Facts DEF RemoveEntry, TypeOK
    <2>2. kind[i] # "placeholder" => ~quit[i] /\ \A s \in Clients : taken[s] # i
        BY <2>1 DEF RegisteredIsOpen, TakenIsGone
    <2> HIDE DEF i
    <2> QED BY <2>1, <2>2 DEF TakenIsOpen
<1>4. CASE RemoveStop(t)
    <2> DEFINE i == taken[t]
    <2>1. /\ i \in Ids /\ UNCHANGED kind
          /\ taken'[t] = NoSession /\ \A s \in Clients : s # t => taken'[s] = taken[s]
          /\ \A j \in Ids : j # i => quit'[j] = quit[j]
        BY <1>4 DEF RemoveStop, Ask, TypeOK
    <2>2. \A s \in Clients : s # t /\ taken[s] # NoSession /\ kind[taken[s]] # "placeholder" =>
              taken[s] # i /\ taken[s] \in Ids
        BY DEF TakenIsOpen, TypeOK
    <2> HIDE DEF i
    <2> QED BY <2>1, <2>2 DEF TakenIsOpen
<1> QED BY <1>1, <1>2, <1>3, <1>4

LEMMA OpenStep ==
    ASSUME IInv, TakenIsOpen, [Next]_vars
    PROVE  TakenIsOpen'
<1> USE DEF IInv, sessVars, reqVars
<1>1. CASE UNCHANGED vars
    BY <1>1, OpenFrame DEF vars
<1>2. ASSUME NEW h \in Hashes, AddMagnet(h) PROVE TakenIsOpen'
    <2>1. PICK i \in Ids : NewSession(i, h, "placeholder")
        BY <1>2 DEF AddMagnet
    <2>2. \A j \in Ids : kind'[j] # "placeholder" => kind[j] # "placeholder"
        BY <2>1 DEF NewSession, TypeOK
    <2> QED BY <1>2, <2>2, OpenFrame DEF AddMagnet
<1>3. ASSUME NEW i \in Ids,
             \/ FetchResult(i) \/ FetchGivesUp(i) \/ FetchCheck(i) \/ FetchDelete(i)
             \/ FetchReinsert(i) \/ FetchPut(i) \/ SaveResume(i) \/ ShutdownSave(i)
      PROVE  TakenIsOpen'
    BY <1>3, OpenFrame DEF FetchResult, FetchGivesUp, FetchCheck, FetchDelete,
           FetchReinsert, FetchPut, SaveResume, ShutdownSave
<1>4. ASSUME NEW i \in Ids, FetchStart(i) PROVE TakenIsOpen'
    <2>1. PICK j \in Ids : NewSession(j, hash[i], "running")
        BY <1>4 DEF FetchStart
    <2>2. \A s \in Clients : taken[s] # j
        BY <2>1 DEF NewSession, Unused, Coherence
    <2>3. \A k \in Ids : k # j => kind'[k] = kind[k]
        BY <2>1 DEF NewSession, TypeOK
    <2> QED BY <1>4, <2>2, <2>3, OpenFrame DEF FetchStart
<1>5. ASSUME NEW i \in Ids, Complete(i) \/ SessionQuit(i) PROVE TakenIsOpen'
    <2>1. \A j \in Ids : kind'[j] # "placeholder" => kind[j] # "placeholder"
        BY <1>5 DEF Complete, SessionQuit, TypeOK
    <2> QED BY <1>5, <2>1, OpenFrame DEF Complete, SessionQuit
<1>6. CASE ShutdownBegin \/ ShutdownEnd
    BY <1>6, OpenFrame DEF ShutdownBegin, ShutdownEnd
<1>7. CASE Restart
    BY <1>7 DEF Restart, TakenIsOpen
<1> QED BY <1>1, <1>2, <1>3, <1>4, <1>5, <1>6, <1>7, OpenRequest DEF Next

\* For any number of concurrent requests, the quit channel of a session that
\* is no placeholder is closed at most once, so no Remove panics on it.
THEOREM QuitIsClosedOnce == Spec => []QuitClosedOnce
<1>1. Init => TakenIsOpen
    BY DEF Init, TakenIsOpen
<1>2. IInv /\ TakenIsOpen /\ [Next]_vars => TakenIsOpen'
    BY OpenStep
<1>3. IInv /\ TakenIsOpen => QuitClosedOnce
    BY DEF IInv, QuitClosedOnce
<1> QED BY <1>1, <1>2, <1>3, Invariant, PTL DEF Spec

----------------------------------------------------------------------------
\* Torrents that never were magnets.

\* a session that downloads or serves and that nobody stops
Runs(i) == kind[i] \in {"running", "seeding"} /\ ~quit[i] /\ \A t \in Clients : taken[t] # i

\* OnlyRegisteredRuns, one session at a time
OneRuns == \A h \in Plain \ doubled, i \in Ids : sessions[h] = i <=> hash[i] = h /\ Runs(i)

LEMMA OneRunsEquiv == TypeOK => (OnlyRegisteredRuns <=> OneRuns)
<1> SUFFICES ASSUME TypeOK PROVE OnlyRegisteredRuns <=> OneRuns
    OBVIOUS
<1>1. \A h \in Hashes, i \in Ids : i \in Active(h) <=> hash[i] = h /\ Runs(i)
    BY DEF Active, At, Runs
<1>2. \A h \in Hashes : sessions[h] \in Ids \cup {NoSession} /\ Active(h) \subseteq Ids
    BY DEF TypeOK, Active, At
<1>3. ASSUME NEW h \in Plain \ doubled
      PROVE  Active(h) = {sessions[h]} \ {NoSession}
                <=> \A i \in Ids : sessions[h] = i <=> hash[i] = h /\ Runs(i)
    BY <1>1, <1>2, Facts
<1> QED BY <1>3 DEF OnlyRegisteredRuns, OneRuns, Plain

SInv == PlainSessions /\ OneRuns /\ Recorded

LEMMA SInit == Init => SInv
<1> SUFFICES ASSUME Init PROVE SInv
    OBVIOUS
<1>1. /\ \A i \in Ids : kind[i] = "free"
      /\ \A h \in Hashes : sessions[h] = NoSession
      /\ \A t \in Clients : pc[t] = "idle"
      /\ torrents = {}
    BY DEF Init
<1>2. PlainSessions /\ Recorded
    BY <1>1, Facts DEF PlainSessions, Recorded, Starting, Putting
<1>3. OneRuns
    BY <1>1, Facts DEF OneRuns, Runs
<1> QED BY <1>2, <1>3 DEF SInv

LEMMA SRestart == ASSUME TypeOK, Restart PROVE SInv'
<1>1. PICK R \in SUBSET torrents :
             /\ R = torrents \/ InitMayFail
             /\ restarts' > 0 /\ restarts' \in 0 .. MaxRestarts
             /\ sessions' \in [Hashes -> Ids \cup {NoSession}]
             /\ hash' \in [Ids -> Hashes] /\ kind' \in [Ids -> {"running", "free"}]
             /\ \A h \in Hashes : h \in R <=> sessions'[h] # NoSession
             /\ \A h \in R : hash'[sessions'[h]] = h /\ kind'[sessions'[h]] = "running"
             /\ \A i \in Ids : kind'[i] = "running" => hash'[i] \in R /\ sessions'[hash'[i]] = i
    BY Restored
<1>2. /\ \A i \in Ids : ~quit'[i] /\ kind'[i] # "placeholder" /\ kind'[i] # "seeding"
      /\ \A t \in Clients : pc'[t] = "idle" /\ taken'[t] = NoSession
      /\ torrents' = torrents
    BY <1>1 DEF Restart, diskVars
<1>3. PlainSessions' /\ Recorded'
    BY <1>1, <1>2, Facts DEF PlainSessions, Recorded, Starting, Putting
<1>4. \A i \in Ids : Runs(i)' <=> kind'[i] = "running"
    BY <1>2, Facts DEF Runs
<1>5. OneRuns'
    BY <1>1, <1>4, Facts DEF OneRuns
<1> QED BY <1>3, <1>5 DEF SInv

\* the requests that matter to the map and to the records
LEMMA SameRequests ==
    ASSUME UNCHANGED <<pc, req>>
    PROVE  \A h \in Hashes : /\ Starting(h)' = Starting(h)
                             /\ Removing(h)' <=> Removing(h)
                             /\ Putting(h)' <=> Putting(h)
BY DEF Starting, Removing, Putting

\* nobody joins the Adds of a torrent, and none is in the map that some Add
\* is about to start
LEMMA PlainFrame ==
    ASSUME PlainSessions, doubled' = doubled,
           \A i \in Ids : kind'[i] = "placeholder" => hash'[i] \in MagnetHashes,
           \A h \in Plain \ doubled :
               /\ Starting(h)' \subseteq Starting(h)
               /\ sessions[h] = NoSession /\ Starting(h)' # {} => sessions'[h] = NoSession
    PROVE  PlainSessions'
<1> SUFFICES ASSUME NEW h \in Plain \ doubled, NEW t \in Starting(h)'
             PROVE  sessions'[h] = NoSession /\ Starting(h)' = {t}
    BY DEF PlainSessions
<1>1. t \in Starting(h) /\ sessions[h] = NoSession /\ Starting(h) = {t}
    BY DEF PlainSessions
<1> QED BY <1>1

\* what happens to magnets, to records of fast-resume data and to sessions
\* that do not run any more does not matter
LEMMA SFrame ==
    ASSUME TypeOK, SInv, UNCHANGED <<quit, pc, req, taken, restarts, histVars>>,
           \A h \in Plain : sessions'[h] = sessions[h] /\ (h \in torrents' <=> h \in torrents),
           \A i \in Ids : /\ hash[i] \in Plain \/ hash'[i] \in Plain =>
                              /\ hash'[i] = hash[i]
                              /\ Runs(i)' <=> Runs(i)
                          /\ kind'[i] = "placeholder" => hash'[i] \in MagnetHashes
    PROVE  SInv'
<1> USE DEF histVars
<1>1. PlainSessions'
    BY SameRequests, Facts DEF SInv, PlainSessions
<1>2. Recorded'
    BY SameRequests, Facts DEF SInv, Recorded
<1>3. OneRuns'
    BY DEF SInv, OneRuns
<1> QED BY <1>1, <1>2, <1>3 DEF SInv

LEMMA SMagnet ==
    ASSUME IInv, SInv, NEW i \in Ids, NEW h \in MagnetHashes, NEW k \in Kinds \ {"free"},
           NewSession(i, h, k), sessions' = [sessions EXCEPT ![h] = i],
           UNCHANGED <<quit, reqVars, diskVars, downVars, histVars>>
    PROVE  SInv'
<1> USE DEF reqVars, diskVars, downVars, histVars
<1>1. h \in Hashes /\ h \notin Plain
    BY Facts DEF Plain
<1>2. /\ hash'[i] = h /\ kind'[i] = k /\ kind[i] = "free"
      /\ \A j \in Ids : j # i => hash'[j] = hash[j] /\ kind'[j] = kind[j]
      /\ \A g \in Hashes : sessions[g] # i
    BY <1>1, NewSessionFacts DEF IInv
<1>3. \A g \in Plain : sessions'[g] = sessions[g]
    BY <1>1, Facts DEF IInv, TypeOK
<1>4. PlainSessions' /\ Recorded'
    BY <1>2, <1>3, SameRequests, Facts DEF SInv, PlainSessions, Recorded
<1>5. \A j \in Ids : j # i => (Runs(j)' <=> Runs(j))
    BY <1>2 DEF Runs
<1>6. OneRuns'
    BY <1>1, <1>2, <1>3, <1>5, Facts DEF SInv, OneRuns
<1> QED BY <1>4, <1>6 DEF SInv

LEMMA SFetch ==
    ASSUME IInv, SInv, NEW i \in Ids,
           \/ FetchResult(i) \/ FetchGivesUp(i) \/ FetchCheck(i) \/ FetchDelete(i)
           \/ FetchReinsert(i) \/ FetchPut(i) \/ FetchStart(i)
    PROVE  SInv'
<1>1. fetch[i] # "none" /\ kind[i] = "placeholder"
    BY DEF FetchResult, FetchGivesUp, FetchCheck, FetchDelete, FetchReinsert, FetchPut,
           FetchStart, Fetch, IInv, Coherence
<1>2. hash[i] \in MagnetHashes /\ hash[i] \in Hashes
    BY <1>1, Facts DEF SInv, PlainSessions
<1>3. CASE FetchStart(i)
    BY <1>2, <1>3, SMagnet DEF FetchStart, Kinds
<1>4. CASE ~FetchStart(i)
    <2>1. /\ UNCHANGED <<hash, kind, quit, pc, req, taken, restarts, histVars>>
          /\ torrents' \in {torrents, torrents \cup {hash[i]}}
          /\ \A h \in Plain : sessions'[h] = sessions[h]
        BY <1>2, <1>4 DEF FetchResult, FetchGivesUp, FetchCheck, FetchDelete, FetchReinsert,
               FetchPut, reqVars, diskVars, downVars, Plain, IInv, TypeOK
    <2>2. \A h \in Plain : h \in torrents' <=> h \in torrents
        BY <1>2, <2>1 DEF Plain
    <2>3. \A j \in Ids : Runs(j)' <=> Runs(j)
        BY <2>1 DEF Runs
    <2>4. \A j \in Ids : kind'[j] = "placeholder" => hash'[j] \in MagnetHashes
        BY <2>1 DEF SInv, PlainSessions
    <2> QED BY <2>1, <2>2, <2>3, <2>4, SFrame DEF IInv
<1> QED BY <1>3, <1>4

LEMMA SQuiet ==
    ASSUME IInv, SInv,
           \/ \E i \in Ids : SaveResume(i) \/ Complete(i) \/ SessionQuit(i) \/ ShutdownSave(i)
           \/ ShutdownBegin \/ ShutdownEnd \/ UNCHANGED vars
    PROVE  SInv'
<1> USE DEF sessVars, reqVars, diskVars, downVars
<1>1. UNCHANGED <<sessions, hash, quit, pc, req, taken, restarts, torrents, histVars>>
    BY DEF histVars, SaveResume, Complete, SessionQuit, ShutdownSave, ShutdownBegin, ShutdownEnd, vars
<1>2. \A j \in Ids : /\ Runs(j)' <=> Runs(j)
                     /\ kind'[j] = "placeholder" => kind[j] = "placeholder"
    <2> SUFFICES ASSUME NEW j \in Ids
                 PROVE  /\ Runs(j)' <=> Runs(j)
                        /\ kind'[j] = "placeholder" => kind[j] = "placeholder"
        OBVIOUS
    <2>1. CASE UNCHANGED kind
        BY <1>1, <2>1 DEF Runs
    <2>2. CASE \E i \in Ids : Complete(i) \/ SessionQuit(i)
        <3>1. PICK i \in Ids : Complete(i) \/ SessionQuit(i)
            BY <2>2
        <3> QED BY <1>1, <3>1 DEF Complete, SessionQuit, Runs, IInv, TypeOK
    <2>3. CASE \E i \in Ids : SaveResume(i) \/ ShutdownSave(i)
        BY <2>1, <2>3 DEF SaveResume, ShutdownSave
    <2>4. CASE ShutdownBegin \/ ShutdownEnd \/ UNCHANGED vars
        BY <2>1, <2>4 DEF ShutdownBegin, ShutdownEnd, vars
    <2> QED BY <2>2, <2>3, <2>4
<1>3. \A j \in Ids : kind'[j] = "placeholder" => hash'[j] \in MagnetHashes
    BY <1>1, <1>2 DEF SInv, PlainSessions
<1> QED BY <1>1, <1>2, <1>3, SFrame DEF IInv

\* how a request that moves on changes who is where
LEMMA Moves ==
    ASSUME TypeOK, Coherence, NEW t \in Clients, NEW from \in Places, NEW to \in Places,
           NEW h \in Hashes, Ask(t, from, to, h),
           from # "idle" => req[t] = h
    PROVE  \A g \in Hashes :
             /\ Starting(g)' = (Starting(g) \ {t}) \cup {s \in {t} : g = h /\ to = "start"}
             /\ g # h \/ (from \notin {"stop", "delete"} /\ to \notin {"stop", "delete"}) =>
                    (Removing(g)' <=> Removing(g))
             /\ g # h \/ (from # "put" /\ to # "put") => (Putting(g)' <=> Putting(g))
             /\ g = h /\ to \in {"stop", "delete"} => Removing(g)'
             /\ g = h /\ to = "put" => Putting(g)'
             /\ to # "put" => (Putting(g)' => Putting(g))
<1>1. /\ pc[t] = from /\ pc'[t] = to /\ req'[t] = IF to = "idle" THEN Idle ELSE h
      /\ \A s \in Clients : s # t => pc'[s] = pc[s] /\ req'[s] = req[s]
      /\ from = "idle" => req[t] = Idle
    BY AskFacts DEF Coherence
<1> SUFFICES ASSUME NEW g \in Hashes
             PROVE  /\ Starting(g)' = (Starting(g) \ {t}) \cup {s \in {t} : g = h /\ to = "start"}
                    /\ g # h \/ (from \notin {"stop", "delete"} /\ to \notin {"stop", "delete"}) =>
                           (Removing(g)' <=> Removing(g))
                    /\ g # h \/ (from # "put" /\ to # "put") => (Putting(g)' <=> Putting(g))
                    /\ g = h /\ to \in {"stop", "delete"} => Removing(g)'
                    /\ g = h /\ to = "put" => Putting(g)'
                    /\ to # "put" => (Putting(g)' => Putting(g))
    OBVIOUS
<1>2. Starting(g)' = (Starting(g) \ {t}) \cup {s \in {t} : g = h /\ to = "start"}
    BY <1>1, Facts DEF Starting
<1>3. g # h \/ (from \notin {"stop", "delete"} /\ to \notin {"stop", "delete"}) => (Removing(g)' <=> Removing(g))
    <2>1. CASE g # h
        <3>1. \A s \in Clients : req'[s] = g <=> req[s] = g
            BY <1>1, <2>1, Facts
        <3>2. \A s \in Clients : req[s] = g => pc'[s] = pc[s]
            BY <1>1, <2>1, Facts
        <3> QED BY <3>1, <3>2 DEF Removing
    <2>2. CASE from \notin {"stop", "delete"} /\ to \notin {"stop", "delete"}
        <3>1. \A s \in Clients : pc'[s] \in {"stop", "delete"} <=> pc[s] \in {"stop", "delete"}
            BY <1>1, <2>2
        <3> QED BY <1>1, <2>2, <3>1 DEF Removing
    <2> QED BY <2>1, <2>2
<1>4. g # h \/ (from # "put" /\ to # "put") => (Putting(g)' <=> Putting(g))
    <2>1. CASE g # h
        <3>1. \A s \in Clients : req'[s] = g <=> req[s] = g
            BY <1>1, <2>1, Facts
        <3>2. \A s \in Clients : req[s] = g => pc'[s] = pc[s]
            BY <1>1, <2>1, Facts
        <3> QED BY <3>1, <3>2 DEF Putting
    <2>2. CASE from # "put" /\ to # "put"
        <3>1. \A s \in Clients : pc'[s] = "put" <=> pc[s] = "put"
            BY <1>1, <2>2
        <3> QED BY <1>1, <2>2, <3>1 DEF Putting
    <2> QED BY <2>1, <2>2
<1>5. /\ g = h /\ to \in {"stop", "delete"} => Removing(g)'
      /\ g = h /\ to = "put" => Putting(g)'
    BY <1>1 DEF Removing, Putting
<1>6. to # "put" => (Putting(g)' => Putting(g))
    BY <1>1 DEF Putting
<1> QED BY <1>2, <1>3, <1>4, <1>5, <1>6

LEMMA SAddCheck ==
    ASSUME IInv, SInv, NEW t \in Clients, NEW h \in Hashes, AddCheck(t, h)
    PROVE  SInv'
<1>1. /\ UNCHANGED <<sessions, hash, kind, quit, fetch, taken, torrents, restarts, undone>>
      /\ sessions[h] = NoSession
      /\ doubled' = doubled \cup {g \in {h} : Starting(h) # {}}
      /\ Ask(t, "idle", "start", h)
    BY DEF AddCheck, sessVars, diskVars, downVars
<1>2. \A g \in Hashes : /\ Starting(g)' = (Starting(g) \ {t}) \cup {s \in {t} : g = h}
                        /\ Removing(g)' <=> Removing(g)
                        /\ Putting(g)' <=> Putting(g)
    BY <1>1, Moves DEF IInv, Places
<1>3. /\ pc'[t] = "start" /\ req'[t] = h
      /\ \A s \in Clients : s # t => pc'[s] = pc[s] /\ req'[s] = req[s]
      /\ \A g \in Hashes : t \notin Starting(g)
    BY <1>1, AskFacts DEF IInv, Places, Starting
<1>4. PlainSessions'
    <2>1. \A i \in Ids : kind'[i] = "placeholder" => hash'[i] \in MagnetHashes
        BY <1>1 DEF SInv, PlainSessions
    <2> SUFFICES ASSUME NEW g \in Plain \ doubled', NEW s \in Starting(g)'
                 PROVE  sessions'[g] = NoSession /\ Starting(g)' = {s}
        BY <2>1 DEF PlainSessions
    <2>2. g \in Hashes /\ g \in Plain \ doubled
        BY <1>1, Facts
    <2>3. CASE g = h
        <3>1. Starting(h) = {}
            BY <1>1, <2>3
        <3> QED BY <1>1, <1>2, <2>2, <2>3, <3>1
    <2>4. CASE g # h
        <3>1. Starting(g)' = Starting(g)
            BY <1>2, <1>3, <2>2, <2>4
        <3> QED BY <1>1, <2>2, <3>1 DEF SInv, PlainSessions
    <2> QED BY <2>3, <2>4
<1>5. Recorded'
    BY <1>1, <1>2, Facts DEF SInv, Recorded
<1>6. OneRuns'
    BY <1>1 DEF SInv, OneRuns, Runs
<1> QED BY <1>4, <1>5, <1>6 DEF SInv

LEMMA SAddFails ==
    ASSUME IInv, SInv, NEW t \in Clients, AddFails(t)
    PROVE  SInv'
<1>1. /\ UNCHANGED <<sessions, hash, kind, quit, fetch, taken, torrents, restarts, histVars>>
      /\ Ask(t, "start", "idle", req[t]) /\ req[t] \in Hashes
    BY ReqFacts DEF AddFails, Ask, sessVars, diskVars, downVars, IInv
<1>2. \A g \in Hashes : /\ Starting(g)' = Starting(g) \ {t}
                        /\ Removing(g)' <=> Removing(g)
                        /\ Putting(g)' <=> Putting(g)
    BY <1>1, Moves DEF IInv, Places
<1>3. pc'[t] = "idle" /\ \A s \in Clients : s # t => pc'[s] = pc[s] /\ req'[s] = req[s]
    BY <1>1, AskFacts DEF IInv, Places
<1>4. PlainSessions'
    BY <1>1, <1>2, <1>3, Facts DEF SInv, PlainSessions, histVars
<1>5. Recorded'
    BY <1>1, <1>2, Facts DEF SInv, Recorded, histVars
<1>6. OneRuns'
    BY <1>1 DEF SInv, OneRuns, Runs, histVars
<1> QED BY <1>4, <1>5, <1>6 DEF SInv

LEMMA SAddStart ==
    ASSUME IInv, SInv, NEW t \in Clients, AddStart(t)
    PROVE  SInv'
<1>1. PICK i \in Ids : NewSession(i, req[t], "running") /\ sessions' = [sessions EXCEPT ![req[t]] = i]
    BY DEF AddStart
<1>2. UNCHANGED <<quit, fetch, taken, torrents, restarts, doubled, undone>>
    BY DEF AddStart, diskVars, downVars, histVars
<1>3. req[t] \in Hashes /\ Ask(t, "start", "put", req[t]) /\ pc[t] = "start"
    BY ReqFacts DEF AddStart, Ask, IInv
<1>4. \A g \in Hashes : /\ Starting(g)' = Starting(g) \ {t}
                        /\ Removing(g)' <=> Removing(g)
                        /\ g # req[t] => (Putting(g)' <=> Putting(g))
                        /\ g = req[t] => Putting(g)'
    BY <1>3, Moves DEF IInv, Places
<1>5. /\ hash'[i] = req[t] /\ kind'[i] = "running" /\ kind[i] = "free" /\ ~quit[i]
      /\ \A j \in Ids : j # i => hash'[j] = hash[j] /\ kind'[j] = kind[j]
      /\ \A g \in Hashes : sessions[g] # i
      /\ \A s \in Clients : taken[s] # i
    BY <1>1, <1>3, NewSessionFacts DEF IInv, Kinds
<1>6. sessions'[req[t]] = i /\ \A g \in Hashes : g # req[t] => sessions'[g] = sessions[g]
    BY <1>1, <1>3 DEF IInv, TypeOK
<1>7. /\ pc'[t] = "put"
      /\ \A s \in Clients : s # t => pc'[s] = pc[s] /\ req'[s] = req[s]
      /\ t \in Starting(req[t])
    BY <1>3, AskFacts DEF IInv, Places, Starting
<1>8. PlainSessions'
    <2>1. \A j \in Ids : kind'[j] = "placeholder" => hash'[j] \in MagnetHashes
        BY <1>5 DEF SInv, PlainSessions
    <2>2. ASSUME NEW g \in Plain \ doubled, Starting(g)' # {} PROVE sessions'[g] = sessions[g]
        <3>1. PICK s \in Starting(g) : s # t
            BY <1>4, <2>2, Facts
        <3>2. g # req[t]
            BY <1>7, <3>1 DEF SInv, PlainSessions
        <3> QED BY <1>6, <3>2, Facts
    <2> QED BY <1>2, <1>4, <2>1, <2>2, PlainFrame, Facts DEF SInv
<1>9. Recorded'
    BY <1>2, <1>4, <1>6, Facts DEF SInv, Recorded
<1>10. Runs(i)' /\ \A j \in Ids : j # i => (Runs(j)' <=> Runs(j))
    BY <1>2, <1>5 DEF Runs
<1>11. OneRuns'
    <2> SUFFICES ASSUME NEW h \in Plain \ doubled, NEW j \in Ids
                 PROVE  sessions'[h] = j <=> hash'[j] = h /\ Runs(j)'
        BY <1>2 DEF OneRuns
    <2>1. sessions[h] = j <=> hash[j] = h /\ Runs(j)
        BY DEF SInv, OneRuns
    <2>2. CASE h = req[t]
        <3>1. sessions[h] = NoSession
            BY <1>7, <2>2 DEF SInv, PlainSessions
        <3> QED BY <1>5, <1>6, <1>10, <2>1, <2>2, <3>1, Facts
    <2>3. CASE h # req[t]
        BY <1>5, <1>6, <1>10, <2>1, <2>3, Facts
    <2> QED BY <2>2, <2>3
<1> QED BY <1>8, <1>9, <1>11 DEF SInv

LEMMA SAddPut ==
    ASSUME IInv, SInv, NEW t \in Clients, AddPut(t)
    PROVE  SInv'
<1>1. /\ UNCHANGED <<sessions, hash, kind, quit, fetch, taken, restarts, doubled, undone>>
      /\ torrents' = torrents \cup {req[t]}
      /\ Ask(t, "put", "idle", req[t]) /\ pc[t] = "put" /\ req[t] \in Hashes
    BY ReqFacts DEF AddPut, Ask, sessVars, downVars, histVars, IInv
<1>2. \A g \in Hashes : /\ Starting(g)' = Starting(g) \ {t}
                        /\ Removing(g)' <=> Removing(g)
                        /\ g # req[t] => (Putting(g)' <=> Putting(g))
                        /\ Putting(g)' => Putting(g)
    BY <1>1, Moves DEF IInv, Places
<1>3. /\ pc'[t] = "idle" /\ \A s \in Clients : s # t => pc'[s] = pc[s] /\ req'[s] = req[s]
      /\ Putting(req[t])
    BY <1>1, AskFacts DEF IInv, Places, Putting
<1>4. PlainSessions'
    BY <1>1, <1>2, <1>3, Facts DEF SInv, PlainSessions
<1>5. Recorded'
    BY <1>1, <1>2, <1>3, Facts DEF SInv, Recorded
<1>6. OneRuns'
    BY <1>1 DEF SInv, OneRuns, Runs
<1> QED BY <1>4, <1>5, <1>6 DEF SInv

LEMMA SRemoveRecord ==
    ASSUME IInv, SInv, NEW t \in Clients, RemoveRecord(t)
    PROVE  SInv'
<1>1. /\ UNCHANGED <<sessions, hash, kind, quit, fetch, taken, restarts, doubled>>
      /\ torrents' = torrents \ {req[t]}
      /\ undone' = undone \cup {h \in {req[t]} : Entered(h)}
      /\ Ask(t, "delete", "idle", req[t]) /\ req[t] \in Hashes
    BY ReqFacts DEF RemoveRecord, Ask, sessVars, downVars, IInv
<1>2. \A g \in Hashes : /\ Starting(g)' = Starting(g) \ {t}
                        /\ g # req[t] => (Removing(g)' <=> Removing(g))
                        /\ Putting(g)' <=> Putting(g)
    BY <1>1, Moves DEF IInv, Places
<1>3. pc'[t] = "idle" /\ \A s \in Clients : s # t => pc'[s] = pc[s] /\ req'[s] = req[s]
    BY <1>1, AskFacts DEF IInv, Places
<1>4. req[t] \notin undone' => sessions[req[t]] = NoSession /\ ~Putting(req[t])
    BY <1>1 DEF Entered, Putting
<1>5. PlainSessions'
    BY <1>1, <1>2, <1>3, Facts DEF SInv, PlainSessions
<1>6. Recorded'
    BY <1>1, <1>2, <1>4, Facts DEF SInv, Recorded
<1>7. OneRuns'
    BY <1>1 DEF SInv, OneRuns, Runs
<1> QED BY <1>5, <1>6, <1>7 DEF SInv

LEMMA SRemoveEntry ==
    ASSUME IInv, SInv, NEW t \in Clients, NEW h \in Hashes, RemoveEntry(t, h)
    PROVE  SInv'
<1>0. sessions[h] \in Ids
    BY DEF RemoveEntry, IInv, TypeOK
<1>11. PICK i \in Ids : i = sessions[h]
    BY <1>0
<1>1. /\ i # NoSession /\ sessions' = [sessions EXCEPT ![h] = NoSession]
      /\ taken' = [taken EXCEPT ![t] = i]
      /\ UNCHANGED <<hash, kind, quit, fetch, torrents, restarts, doubled, undone>>
      /\ Ask(t, "idle", "stop", h)
    BY <1>11 DEF RemoveEntry, sessVars, diskVars, downVars, histVars
<1>2. i \in Ids /\ hash[i] = h
    BY <1>11, <1>1 DEF IInv, TypeOK, Coherence
<1>3. /\ pc[t] = "idle" /\ pc'[t] = "stop"
      /\ \A s \in Clients : s # t => pc'[s] = pc[s] /\ req'[s] = req[s]
      /\ \A g \in Hashes : t \notin Starting(g)
    <2>1. "stop" \in Places /\ h \in Hashes \cup {Idle}
        BY DEF Places
    <2>2. /\ pc[t] = "idle" /\ pc'[t] = "stop"
          /\ \A s \in Clients : s # t => pc'[s] = pc[s] /\ req'[s] = req[s]
        BY <1>1, <2>1, AskFacts DEF IInv
    <2> QED BY <2>2 DEF Starting
<1>4. \A g \in Hashes : /\ Starting(g)' = Starting(g)
                        /\ g # h => (Removing(g)' <=> Removing(g))
                        /\ Putting(g)' <=> Putting(g)
                        /\ g = h => Removing(g)'
    <2>1. \A g \in Hashes : /\ Starting(g)' = (Starting(g) \ {t})
                            /\ g # h => (Removing(g)' <=> Removing(g))
                            /\ Putting(g)' <=> Putting(g)
                            /\ g = h => Removing(g)'
        BY <1>1, Moves DEF IInv, Places
    <2> QED BY <1>3, <2>1
<1>5. /\ sessions'[h] = NoSession
      /\ \A g \in Hashes : g # h => sessions'[g] = sessions[g]
      /\ taken'[t] = i /\ \A s \in Clients : s # t => taken'[s] = taken[s]
      /\ taken[t] = NoSession
    BY <1>1, <1>3 DEF IInv, TypeOK, Coherence
<1>7. PlainSessions'
    BY <1>1, <1>4, <1>5, PlainFrame, Facts DEF SInv, PlainSessions
<1>8. Recorded'
    BY <1>1, <1>4, <1>5, Facts DEF SInv, Recorded
<1>9. ~Runs(i)' /\ \A j \in Ids : j # i => (Runs(j)' <=> Runs(j))
    <2>1. kind' = kind /\ quit' = quit
        BY <1>1
    <2>2. ~Runs(i)'
        BY <1>5 DEF Runs
    <2>3. ASSUME NEW j \in Ids, j # i PROVE Runs(j)' <=> Runs(j)
        <3>1. \A s \in Clients : taken[s] = j <=> taken'[s] = j
            BY <1>5, <2>3, Facts
        <3> QED BY <2>1, <3>1 DEF Runs
    <2> QED BY <2>2, <2>3
<1>10. OneRuns'
    <2> SUFFICES ASSUME NEW g \in Plain \ doubled, NEW j \in Ids
                 PROVE  sessions'[g] = j <=> hash'[j] = g /\ Runs(j)'
        BY <1>1 DEF OneRuns
    <2>1. sessions[g] = j <=> hash[j] = g /\ Runs(j)
        BY DEF SInv, OneRuns
    <2>2. CASE g = h
        <3>1. sessions[g] = i
            BY <1>11, <2>2
        <3>2. j = i => ~Runs(j)'
            BY <1>9
        <3>3. j # i => ~(hash'[j] = g /\ Runs(j)')
            BY <1>1, <1>9, <2>1, <3>1
        <3> QED BY <1>5, <2>2, <3>2, <3>3, Facts
    <2>3. CASE g # h
        <3>1. sessions'[g] = sessions[g]
            BY <1>5, <2>3, Facts
        <3>2. j = i => hash'[j] # g /\ hash[j] # g
            BY <1>1, <1>2, <2>3
        <3>3. j # i => (Runs(j)' <=> Runs(j))
            BY <1>9
        <3> QED BY <1>1, <2>1, <3>1, <3>2, <3>3
    <2> QED BY <2>2, <2>3
<1> QED BY <1>7, <1>8, <1>10 DEF SInv

LEMMA SRemoveStop ==
    ASSUME IInv, TakenIsOpen, SInv, NEW t \in Clients, RemoveStop(t)
    PROVE  SInv'
<1> DEFINE i == taken[t]
           to == IF quit[i] THEN "idle" ELSE "delete"
<1>1. /\ quit' = [quit EXCEPT ![i] = TRUE] /\ taken' = [taken EXCEPT ![t] = NoSession]
      /\ pc[t] = "stop" /\ Ask(t, "stop", to, req[t])
      /\ UNCHANGED <<sessions, hash, kind, fetch, torrents, restarts, doubled, undone>>
    BY DEF RemoveStop, Ask, diskVars, downVars, histVars
<1>2. /\ i \in Ids /\ i # NoSession /\ to \in Places /\ to \in {"idle", "delete"}
      /\ req[t] \in Hashes /\ hash[i] = req[t]
    BY <1>1, ReqFacts, Facts DEF IInv, TypeOK, Places, Coherence
<1>3. /\ pc'[t] = to /\ \A s \in Clients : s # t => pc'[s] = pc[s] /\ req'[s] = req[s]
      /\ \A g \in Hashes : t \notin Starting(g)
    BY <1>1, <1>2, AskFacts DEF IInv, Starting
<1>4. /\ taken'[t] = NoSession /\ \A s \in Clients : s # t => taken'[s] = taken[s]
      /\ quit'[i] /\ \A j \in Ids : j # i => quit'[j] = quit[j]
    BY <1>1, <1>2 DEF IInv, TypeOK
<1>5. req[t] \in Plain => to = "delete"
    <2>1. req[t] \in Plain => kind[i] # "placeholder"
        BY <1>2 DEF SInv, PlainSessions, Plain
    <2> QED BY <1>2, <2>1 DEF TakenIsOpen
<1> HIDE DEF to
<1>6. \A g \in Hashes : /\ Starting(g)' = Starting(g)
                        /\ g # req[t] => (Removing(g)' <=> Removing(g))
                        /\ Putting(g)' <=> Putting(g)
                        /\ g = req[t] /\ to = "delete" => Removing(g)'
    <2>1. \A g \in Hashes : /\ Starting(g)' = (Starting(g) \ {t}) \cup {s \in {t} : g = req[t] /\ to = "start"}
                            /\ g # req[t] => (Removing(g)' <=> Removing(g))
                            /\ Putting(g)' <=> Putting(g)
                            /\ g = req[t] /\ to = "delete" => Removing(g)'
        BY <1>1, <1>2, Moves DEF IInv, Places
    <2> QED BY <1>2, <1>3, <2>1
<1>7. PlainSessions'
    BY <1>1, <1>6, PlainFrame, Facts DEF SInv, PlainSessions
<1>8. Recorded'
    <2> SUFFICES ASSUME NEW h \in Plain \ undone
                 PROVE  /\ sessions[h] # NoSession => h \in torrents \/ Putting(h)'
                        /\ sessions[h] = NoSession /\ Putting(h)' => Removing(h)'
                        /\ sessions[h] = NoSession /\ h \in torrents =>
                               Removing(h)' \/ (InitMayFail /\ restarts > 0)
        BY <1>1 DEF Recorded
    <2>1. h \in Hashes
        BY Facts
    <2>2. Removing(h) => Removing(h)'
        BY <1>5, <1>6, <2>1
    <2> QED BY <1>6, <2>1, <2>2 DEF SInv, Recorded
<1>9. \A j \in Ids : Runs(j)' <=> Runs(j)
    <2> SUFFICES ASSUME NEW j \in Ids PROVE Runs(j)' <=> Runs(j)
        OBVIOUS
    <2>1. CASE j = i
        BY <1>4, <2>1 DEF Runs
    <2>2. CASE j # i
        <3>1. \A s \in Clients : taken[s] = j <=> taken'[s] = j
            BY <1>4, <2>2, Facts
        <3> QED BY <1>1, <1>4, <2>2, <3>1 DEF Runs
    <2> QED BY <2>1, <2>2
<1>10. OneRuns'
    BY <1>1, <1>9 DEF SInv, OneRuns
<1> QED BY <1>7, <1>8, <1>10 DEF SInv

LEMMA SStep == ASSUME IInv, TakenIsOpen, SInv, [Next]_vars PROVE SInv'
<1>1. ASSUME NEW h \in Hashes, AddMagnet(h) PROVE SInv'
    BY <1>1, SMagnet DEF AddMagnet, Kinds
<1>2. CASE Restart
    BY <1>2, SRestart DEF IInv
<1> QED BY <1>1, <1>2, SFetch, SQuiet, SAddCheck, SAddFails, SAddStart, SAddPut, SRemoveRecord,
           SRemoveEntry, SRemoveStop DEF Next

LEMMA PlainInvariant == Spec => []SInv
<1>1. IInv /\ TakenIsOpen /\ SInv /\ [Next]_vars => SInv'
    BY SStep
<1>2. QuitClosedOnce => TakenIsOpen
    BY DEF QuitClosedOnce
<1> QED BY <1>1, <1>2, SInit, Invariant, QuitIsClosedOnce, PTL DEF Spec

\* For any number of requests under way together, a torrent added from its file
\* has no session but the one in the map, through removals, crashes and
\* restarts, unless two Adds of it were past the check together.
THEOREM OnlyRegisteredRun == Spec => []OnlyRegisteredRuns
<1>1. IInv /\ SInv => OnlyRegisteredRuns
    BY OneRunsEquiv DEF IInv, SInv
<1> QED BY <1>1, Invariant, PlainInvariant, PTL

\* For any number of requests under way together, map and database agree on
\* such a torrent whenever none is for it, unless a Remove deleted the record
\* after an Add had entered the torrent again.
THEOREM RegisteredAreRecorded == Spec => []RegisteredIsRecorded
<1>1. SInv => RegisteredIsRecorded
    BY Facts DEF SInv, Recorded, RegisteredIsRecorded, Removing, Putting
<1> QED BY <1>1, PlainInvariant, PTL

============================================================================
