------------------------ MODULE PageControlsProofs ------------------------
(***************************************************************************)
(* Proofs of PageControls' invariants, for any torrents, requests under    *)
(* way, gestures and other clients.                                        *)
(***************************************************************************)
EXTENDS PageControls, TLAPS, SequenceTheorems

LEMMA Bounds ==
    /\ None \notin Hashes /\ Calls \subseteq Nat
    /\ MaxCalls \in Nat /\ MaxGestures \in Nat /\ MaxForeign \in Nat
    /\ Files \subseteq Hashes /\ Magnets \subseteq Hashes
BY PageControlsAssumption DEF Calls, Hashes

LEMMA Records ==
    /\ Fresh \in RowStates /\ NewDialog \in DialogStates /\ NoCall \in Requests
    /\ ~Fresh.busy /\ Fresh.ask = None /\ ~NewDialog.busy
    /\ ~NoCall.mine /\ NoCall.row = None /\ NoCall.kind = "none"
BY DEF Fresh, NewDialog, NoCall, RowStates, DialogStates, Requests, Stages, Tabs, RowKinds

----------------------------------------------------------------------------
\* The list of the server.

LEMMA WithType ==
    ASSUME NEW list \in Seq(Sessions), NEW h, NEW s \in States
    PROVE  With(list, h, s) \in Seq(Sessions)
<1>1. /\ DOMAIN list = 1 .. Len(list) /\ Len(list) \in Nat
      /\ \A i \in 1 .. Len(list) : list[i] \in Sessions
    BY LenProperties, ElementOfSeq
<1>2. \A i \in 1 .. Len(list) :
          (IF list[i].hash = h THEN [list[i] EXCEPT !.state = s] ELSE list[i]) \in Sessions
    BY <1>1 DEF Sessions
<1> QED BY <1>1, <1>2, IsASeq DEF With

LEMMA WithoutType ==
    ASSUME NEW list \in Seq(Sessions), NEW h
    PROVE  Without(list, h) \in Seq(Sessions)
<1>1. CASE ~In(list, h)
    BY <1>1 DEF Without
<1>2. CASE In(list, h)
    <2> DEFINE i == CHOOSE i \in DOMAIN list : list[i].hash = h
    <2>1. i \in 1 .. Len(list) /\ Len(list) \in Nat
        BY <1>2, LenProperties DEF In
    <2> HIDE DEF i
    <2>2. SubSeq(list, 1, i - 1) \in Seq(Sessions) /\ SubSeq(list, i + 1, Len(list)) \in Seq(Sessions)
        BY <2>1, SubSeqProperties
    <2>3. RemoveAt(list, i) \in Seq(Sessions)
        BY <2>2, ConcatProperties DEF RemoveAt
    <2> QED BY <1>2, <2>3 DEF Without, i
<1> QED BY <1>1, <1>2

LEMMA AddedType ==
    ASSUME engine \in Seq(Sessions), NEW h \in Hashes, NEW i \in Places(h)
    PROVE  Added(h, i) \in Seq(Sessions)
<1> DEFINE list == Without(engine, h)
           new == NewSession(h)
<1>1. list \in Seq(Sessions) /\ Len(list) \in Nat /\ i \in 1 .. Len(list) + 1
    BY WithoutType, LenProperties DEF Places
<1>2. new \in Sessions
    BY DEF NewSession, Sessions, States
<1> HIDE DEF list, new
<1>3. SubSeq(list, 1, i - 1) \in Seq(Sessions) /\ SubSeq(list, i, Len(list)) \in Seq(Sessions)
    BY <1>1, SubSeqProperties
<1>4. <<new>> \in Seq(Sessions)
    BY <1>2
<1>5. InsertAt(list, i, new) \in Seq(Sessions)
    BY <1>3, <1>4, ConcatProperties DEF InsertAt
<1> QED BY <1>5 DEF Added, list, new

\* where there is no such torrent, the end of the list is a place
LEMMA AtTheEnd ==
    ASSUME engine \in Seq(Sessions), NEW h, ~In(engine, h)
    PROVE  Len(engine) + 1 \in Places(h)
BY LenProperties DEF Without, Places

LEMMA RowOfTorrent ==
    ASSUME TypeOK, NEW i \in DOMAIN torrents
    PROVE  /\ torrents[i].hash \in Hashes /\ Key(torrents, i) = torrents[i].hash
           /\ Row(i) \in RowStates
<1>1. torrents[i] \in Sessions
    BY ElementOfSeq, LenProperties DEF TypeOK
<1> QED BY <1>1 DEF Sessions, Key, Row, TypeOK, RowStates

----------------------------------------------------------------------------
\* The requests.

\* a new request is its sender's, and takes nobody else's place
LEMMA SendFacts ==
    ASSUME TypeOK, Belongs,
           NEW kind \in RowKinds \cup {"add"}, NEW h \in Hashes, NEW row \in Hashes \cup {None},
           row # None <=> kind \in RowKinds, Send(kind, h, row)
    PROVE  /\ call' \in [Calls -> Requests] /\ Belonging(call')
           /\ \A k \in Hashes : OfRow(call, k) => OfRow(call', k)
           /\ OfDialog(call) => OfDialog(call')
           /\ row # None => OfRow(call', row)
           /\ kind = "add" => OfDialog(call')
<1> DEFINE r == [kind |-> kind, hash |-> h, row |-> row, at |-> "sent", mine |-> TRUE]
<1>1. PICK c \in Calls : call[c] = NoCall /\ call' = [call EXCEPT ![c] = r]
    BY DEF Send
<1>2. r \in Requests /\ r.kind = kind /\ r.hash = h /\ r.row = row /\ r.mine
    BY DEF Requests, RowKinds, Stages
<1> HIDE DEF r
<1>3. /\ call' \in [Calls -> Requests]
      /\ call'[c] = r /\ \A d \in Calls \ {c} : call'[d] = call[d]
    BY <1>1, <1>2 DEF TypeOK
<1>4. ~call[c].mine
    BY <1>1, Records
<1>5. Belonging(call')
    BY <1>2, <1>3 DEF Belongs, Belonging
<1>6. /\ \A k \in Hashes : OfRow(call, k) => OfRow(call', k)
      /\ OfDialog(call) => OfDialog(call')
    BY <1>3, <1>4 DEF OfRow, OfDialog
<1>7. (row # None => OfRow(call', row)) /\ (kind = "add" => OfDialog(call'))
    BY <1>2, <1>3 DEF OfRow, OfDialog
<1> QED BY <1>3, <1>5, <1>6, <1>7

\* an answer changes nobody's claim to a request
LEMMA AnswerFacts ==
    ASSUME TypeOK, Belongs, NEW c \in Calls, NEW stage \in Stages, At(c, stage)
    PROVE  /\ call' \in [Calls -> Requests] /\ Belonging(call')
           /\ \A k \in Hashes : OfRow(call, k) => OfRow(call', k)
           /\ OfDialog(call) => OfDialog(call')
<1> DEFINE r == [call[c] EXCEPT !.at = stage]
<1>1. /\ r \in Requests
      /\ r.kind = call[c].kind /\ r.hash = call[c].hash /\ r.row = call[c].row /\ r.mine = call[c].mine
    BY DEF TypeOK, Requests
<1>2. call' = [call EXCEPT ![c] = r]
    BY DEF At
<1> HIDE DEF r
<1>3. /\ call' \in [Calls -> Requests]
      /\ \A d \in Calls : /\ call'[d].kind = call[d].kind /\ call'[d].hash = call[d].hash
                          /\ call'[d].row = call[d].row /\ call'[d].mine = call[d].mine
    BY <1>1, <1>2 DEF TypeOK
<1>4. Belonging(call')
    BY <1>3 DEF Belongs, Belonging
<1>5. /\ \A k \in Hashes : OfRow(call, k) => OfRow(call', k)
      /\ OfDialog(call) => OfDialog(call')
    BY <1>3 DEF OfRow, OfDialog
<1> QED BY <1>3, <1>4, <1>5

\* a request that has ended was its sender's only
LEMMA EndFacts ==
    ASSUME TypeOK, Belongs, NEW c \in Calls, NEW f, f = [call EXCEPT ![c] = NoCall]
    PROVE  /\ f \in [Calls -> Requests] /\ Belonging(f)
           /\ \A k \in Hashes : OfRow(call, k) /\ ~(call[c].mine /\ call[c].row = k) => OfRow(f, k)
           /\ OfDialog(call) /\ ~(call[c].mine /\ call[c].kind = "add") => OfDialog(f)
<1>1. /\ f \in [Calls -> Requests]
      /\ f[c] = NoCall /\ \A d \in Calls \ {c} : f[d] = call[d]
    BY Records DEF TypeOK
<1>2. Belonging(f)
    BY <1>1, Records DEF Belongs, Belonging, RowKinds
<1>3. /\ \A k \in Hashes : OfRow(call, k) /\ ~(call[c].mine /\ call[c].row = k) => OfRow(f, k)
      /\ OfDialog(call) /\ ~(call[c].mine /\ call[c].kind = "add") => OfDialog(f)
    BY <1>1 DEF OfRow, OfDialog
<1> QED BY <1>1, <1>2, <1>3

\* a dialog that goes away leaves the rows' requests alone
LEMMA RowsKeep ==
    ASSUME NEW f, NEW g, Belonging(f),
           \A c \in Calls : /\ g[c].kind = f[c].kind /\ g[c].hash = f[c].hash /\ g[c].row = f[c].row
                            /\ f[c].kind # "add" => g[c].mine = f[c].mine
    PROVE  Belonging(g) /\ \A k \in Hashes : OfRow(f, k) => OfRow(g, k)
<1>1. Belonging(g)
    BY DEF Belonging
<1>2. \A c \in Calls : f[c].row \in Hashes => f[c].kind # "add"
    BY Bounds DEF Belonging, RowKinds
<1>3. \A k \in Hashes : OfRow(f, k) => OfRow(g, k)
    BY <1>2 DEF OfRow
<1> QED BY <1>1, <1>3

LEMMA OrphanFacts ==
    ASSUME NEW f \in [Calls -> Requests], Belonging(f), NEW g, g = Orphaned(f)
    PROVE  /\ g \in [Calls -> Requests] /\ Belonging(g)
           /\ \A k \in Hashes : OfRow(f, k) => OfRow(g, k)
<1>1. \A c \in Calls : [f[c] EXCEPT !.mine = FALSE] \in Requests
    BY DEF Requests
<1>2. /\ g \in [Calls -> Requests]
      /\ \A c \in Calls : /\ g[c].kind = f[c].kind /\ g[c].hash = f[c].hash /\ g[c].row = f[c].row
                          /\ f[c].kind # "add" => g[c].mine = f[c].mine
    BY <1>1 DEF Orphaned, Requests
<1> QED BY <1>2, RowsKeep

----------------------------------------------------------------------------
\* The steps.

LEMMA InitInv == Init => IInv
<1> SUFFICES ASSUME Init PROVE IInv
    OBVIOUS
<1>1. <<>> \in Seq(Sessions)
    BY EmptySeq
<1>2. TypeOK
    <2>1. 0 \in 0 .. MaxGestures /\ 0 \in 0 .. MaxForeign
        BY Bounds
    <2>2. engine \in Seq(Sessions) /\ torrents \in Seq(Sessions)
        BY <1>1 DEF Init
    <2>3. rows \in [Hashes -> RowStates] /\ call \in [Calls -> Requests]
        BY Records DEF Init
    <2> QED BY <2>1, <2>2, <2>3, Records DEF Init, TypeOK
<1>3. Belongs
    BY Records DEF Init, Belongs, Belonging, RowKinds
<1>4. BusyIsUnderWay
    BY Records DEF Init, BusyIsUnderWay
<1> QED BY <1>2, <1>3, <1>4 DEF IInv

\* what a step has to show when it leaves both lists alone
LEMMA Frame ==
    ASSUME IInv, engine' \in Seq(Sessions), torrents' \in Seq(Sessions),
           rows' \in [Hashes -> RowStates], showAdd' \in BOOLEAN, dialog' \in DialogStates,
           call' \in [Calls -> Requests], Belonging(call'),
           gestures' \in 0 .. MaxGestures, foreign' \in 0 .. MaxForeign,
           \A k \in Hashes : rows'[k].ask \in {None, k} /\ (rows'[k].busy => OfRow(call', k)),
           dialog'.busy => OfDialog(call')
    PROVE  IInv'
<1>1. TypeOK'
    BY DEF TypeOK
<1>2. Belongs'
    BY DEF Belongs, Belonging
<1>3. BusyIsUnderWay'
    BY DEF BusyIsUnderWay, OfRow, OfDialog
<1> QED BY <1>1, <1>2, <1>3 DEF IInv

LEMMA GestureType ==
    ASSUME TypeOK, Gesture PROVE gestures' \in 0 .. MaxGestures
BY Bounds DEF Gesture, TypeOK

LEMMA ShowInv == ASSUME IInv, Show PROVE IInv'
<1>1. /\ torrents' = engine
      /\ rows' = [k \in Hashes |-> IF k \in Keys(torrents) \cap Keys(engine) THEN rows[k] ELSE Fresh]
      /\ UNCHANGED <<engine, showAdd, dialog, gestures, foreign>>
    BY DEF Show
<1>2. \A c \in Calls : [call[c] EXCEPT !.mine = FALSE] \in Requests
    BY DEF IInv, TypeOK, Requests
<1>3. /\ call' \in [Calls -> Requests]
      /\ \A c \in Calls :
            /\ call'[c].kind = call[c].kind /\ call'[c].hash = call[c].hash
            /\ call'[c].row = call[c].row
            /\ call[c].row = None \/ call[c].row \in Keys(engine) => call'[c].mine = call[c].mine
    BY <1>2 DEF Show, IInv, TypeOK, Requests
<1>4. Belonging(call')
    BY <1>3 DEF IInv, Belongs, Belonging
<1>5. \A k \in Keys(engine) \cap Hashes : OfRow(call, k) => OfRow(call', k)
    BY <1>3 DEF OfRow
<1>6. OfDialog(call) => OfDialog(call')
    BY <1>3 DEF IInv, Belongs, Belonging, RowKinds, OfDialog
<1>7. rows' \in [Hashes -> RowStates]
    BY <1>1, Records DEF IInv, TypeOK
<1>8. \A k \in Hashes : rows'[k].ask \in {None, k} /\ (rows'[k].busy => OfRow(call', k))
    BY <1>1, <1>5, Records DEF IInv, TypeOK, Belongs, BusyIsUnderWay
<1>9. dialog'.busy => OfDialog(call')
    BY <1>1, <1>6 DEF IInv, BusyIsUnderWay
<1> QED BY <1>1, <1>3, <1>4, <1>7, <1>8, <1>9, Frame DEF IInv, TypeOK

LEMMA ActInv ==
    ASSUME IInv, NEW i \in DOMAIN torrents, NEW kind \in RowKinds,
           NEW row \in RowStates, row.ask \in {None, Row(i).ask}, Act(i, kind, row)
    PROVE  IInv'
<1> DEFINE k == Key(torrents, i)
<1>1. k \in Hashes /\ torrents[i].hash \in Hashes /\ Row(i) = rows[k]
    BY RowOfTorrent DEF IInv, Row
<1>2. /\ Send(kind, torrents[i].hash, k)
      /\ rows' = [rows EXCEPT ![k] = [row EXCEPT !.busy = TRUE]]
      /\ UNCHANGED <<engine, torrents, showAdd, dialog, foreign>>
      /\ gestures' \in 0 .. MaxGestures
    BY GestureType DEF Act, IInv
<1> HIDE DEF k
<1>3. /\ call' \in [Calls -> Requests] /\ Belonging(call')
      /\ \A j \in Hashes : OfRow(call, j) => OfRow(call', j)
      /\ OfDialog(call) => OfDialog(call')
      /\ OfRow(call', k)
    BY <1>1, <1>2, SendFacts, Bounds DEF IInv
<1>4. [row EXCEPT !.busy = TRUE] \in RowStates /\ [row EXCEPT !.busy = TRUE].ask = row.ask
    BY DEF RowStates
<1>5. /\ rows' \in [Hashes -> RowStates]
      /\ rows'[k].ask = row.ask /\ \A j \in Hashes \ {k} : rows'[j] = rows[j]
    BY <1>1, <1>2, <1>4 DEF IInv, TypeOK
<1>6. \A j \in Hashes : rows'[j].ask \in {None, j} /\ (rows'[j].busy => OfRow(call', j))
    BY <1>1, <1>3, <1>5 DEF IInv, Belongs, BusyIsUnderWay
<1>7. dialog'.busy => OfDialog(call')
    BY <1>2, <1>3 DEF IInv, BusyIsUnderWay
<1> QED BY <1>2, <1>3, <1>5, <1>6, <1>7, Frame DEF IInv, TypeOK

LEMMA RowInv ==
    ASSUME IInv, NEW i \in DOMAIN torrents, UserOnRow(i)
    PROVE  IInv'
<1>1. /\ Key(torrents, i) \in Hashes /\ Key(torrents, i) = torrents[i].hash
      /\ Row(i) \in RowStates
    BY RowOfTorrent DEF IInv
<1>2. CASE ClickPause(i)
    BY <1>1, <1>2, ActInv DEF ClickPause, RowKinds
<1>3. CASE ClickResume(i)
    BY <1>1, <1>3, ActInv DEF ClickResume, RowKinds
<1>4. CASE ConfirmRemove(i)
    <2>1. /\ [Row(i) EXCEPT !.ask = None] \in RowStates
          /\ [Row(i) EXCEPT !.ask = None].ask = None
        BY <1>1 DEF RowStates
    <2> QED BY <1>4, <2>1, ActInv DEF ConfirmRemove, RowKinds
<1>5. ASSUME NEW h \in {None, torrents[i].hash}, Gesture,
             rows' = [rows EXCEPT ![Key(torrents, i)].ask = h],
             UNCHANGED <<engine, torrents, showAdd, dialog, call, foreign>>
      PROVE  IInv'
    <2>1. /\ rows' \in [Hashes -> RowStates]
          /\ \A k \in Hashes : /\ rows'[k].busy = rows[k].busy
                               /\ rows'[k].ask \in {None, k}
        BY <1>1, <1>5 DEF IInv, TypeOK, Belongs, RowStates
    <2>2. gestures' \in 0 .. MaxGestures
        BY <1>5, GestureType DEF IInv
    <2> QED BY <1>5, <2>1, <2>2, Frame DEF IInv, TypeOK, Belongs, BusyIsUnderWay
<1>6. CASE ClickRemove(i)
    BY <1>5, <1>6 DEF ClickRemove
<1>7. CASE CancelRemove(i)
    BY <1>5, <1>7 DEF CancelRemove
<1> QED BY <1>2, <1>3, <1>4, <1>6, <1>7 DEF UserOnRow

LEMMA RowAnsweredInv ==
    ASSUME IInv, NEW c \in Calls, RowAnswered(c)
    PROVE  IInv'
<1>1. /\ call' = [call EXCEPT ![c] = NoCall] /\ call[c].kind # "add"
      /\ UNCHANGED <<engine, torrents, showAdd, dialog, gestures, foreign>>
    BY DEF RowAnswered, RowKinds
<1>2. /\ call' \in [Calls -> Requests] /\ Belonging(call')
      /\ \A k \in Hashes : OfRow(call, k) /\ ~(call[c].mine /\ call[c].row = k) => OfRow(call', k)
      /\ OfDialog(call) /\ ~(call[c].mine /\ call[c].kind = "add") => OfDialog(call')
    BY <1>1, EndFacts DEF IInv
<1>3. /\ rows' \in [Hashes -> RowStates]
      /\ \A k \in Hashes :
            /\ rows'[k].ask = rows[k].ask
            /\ rows'[k].busy => rows[k].busy /\ ~(call[c].mine /\ call[c].row = k)
    BY DEF RowAnswered, Release, IInv, TypeOK, RowStates
<1>4. \A k \in Hashes : rows'[k].ask \in {None, k} /\ (rows'[k].busy => OfRow(call', k))
    BY <1>2, <1>3 DEF IInv, Belongs, BusyIsUnderWay
<1>5. dialog'.busy => OfDialog(call')
    BY <1>1, <1>2 DEF IInv, BusyIsUnderWay
<1> QED BY <1>1, <1>2, <1>3, <1>4, <1>5, Frame DEF IInv, TypeOK

LEMMA CloseInv ==
    ASSUME IInv, NEW f \in [Calls -> Requests], Belonging(f), Close(f),
           engine' \in Seq(Sessions), torrents' \in Seq(Sessions),
           gestures' \in 0 .. MaxGestures, foreign' \in 0 .. MaxForeign,
           rows' \in [Hashes -> RowStates],
           \A k \in Hashes : rows'[k].ask \in {None, k} /\ (rows'[k].busy => OfRow(f, k))
    PROVE  IInv'
<1>1. showAdd' = FALSE /\ dialog' = NewDialog /\ call' = Orphaned(f)
    BY DEF Close
<1>2. /\ call' \in [Calls -> Requests] /\ Belonging(call')
      /\ \A k \in Hashes : OfRow(f, k) => OfRow(call', k)
    BY <1>1, OrphanFacts
<1>3. \A k \in Hashes : rows'[k].ask \in {None, k} /\ (rows'[k].busy => OfRow(call', k))
    BY <1>2
<1> QED BY <1>1, <1>2, <1>3, Records, Frame

LEMMA SubmitInv == ASSUME IInv, Submit PROVE IInv'
<1> DEFINE h == IF dialog.tab = "file" THEN dialog.file ELSE dialog.magnet
<1>1. /\ h # None /\ Send("add", h, None) /\ dialog' = [dialog EXCEPT !.busy = TRUE]
      /\ UNCHANGED <<engine, torrents, rows, showAdd, foreign>>
      /\ gestures' \in 0 .. MaxGestures
    BY GestureType DEF Submit, IInv
<1>2. h \in Hashes /\ dialog' \in DialogStates
    BY <1>1, Bounds DEF IInv, TypeOK, DialogStates
<1> HIDE DEF h
<1>3. /\ call' \in [Calls -> Requests] /\ Belonging(call')
      /\ \A k \in Hashes : OfRow(call, k) => OfRow(call', k)
      /\ OfDialog(call')
    BY <1>1, <1>2, SendFacts DEF IInv, RowKinds
<1>4. \A k \in Hashes : rows'[k].ask \in {None, k} /\ (rows'[k].busy => OfRow(call', k))
    BY <1>1, <1>3 DEF IInv, Belongs, BusyIsUnderWay
<1> QED BY <1>1, <1>2, <1>3, <1>4, Frame DEF IInv, TypeOK

LEMMA DialogInv == ASSUME IInv, UserOnDialog PROVE IInv'
<1>1. CASE ClickAddTorrent
    <2>1. gestures' \in 0 .. MaxGestures
        BY <1>1, GestureType DEF ClickAddTorrent, IInv
    <2>2. showAdd' \in BOOLEAN /\ UNCHANGED <<engine, torrents, rows, dialog, call, foreign>>
        BY <1>1 DEF ClickAddTorrent
    <2> QED BY <2>1, <2>2, Frame DEF IInv, TypeOK, Belongs, BusyIsUnderWay
<1>2. CASE ClickCancel
    <2>1. gestures' \in 0 .. MaxGestures /\ Close(call) /\ UNCHANGED <<engine, torrents, rows, foreign>>
        BY <1>2, GestureType DEF ClickCancel, IInv
    <2> QED BY <2>1, CloseInv DEF IInv, TypeOK, Belongs, BusyIsUnderWay
<1>3. CASE PressEscape
    <2>1. /\ gestures' \in 0 .. MaxGestures /\ Close(call) /\ UNCHANGED <<engine, torrents, foreign>>
          /\ rows' = [k \in Hashes |-> [rows[k] EXCEPT !.ask = None]]
        BY <1>3, GestureType DEF PressEscape, IInv
    <2>2. /\ rows' \in [Hashes -> RowStates]
          /\ \A k \in Hashes : rows'[k].ask = None /\ rows'[k].busy = rows[k].busy
        BY <2>1 DEF IInv, TypeOK, RowStates
    <2>3. \A k \in Hashes : rows'[k].ask \in {None, k} /\ (rows'[k].busy => OfRow(call, k))
        BY <2>2 DEF IInv, BusyIsUnderWay
    <2> QED BY <2>1, <2>2, <2>3, CloseInv DEF IInv, TypeOK, Belongs
<1>4. ASSUME NEW new \in DialogStates, new.busy = dialog.busy, Edit(new) PROVE IInv'
    <2>1. /\ gestures' \in 0 .. MaxGestures /\ dialog' = new
          /\ UNCHANGED <<engine, torrents, rows, showAdd, call, foreign>>
        BY <1>4, GestureType DEF Edit, IInv
    <2>2. dialog' \in DialogStates /\ dialog'.busy = dialog.busy
        BY <1>4, <2>1
    <2> QED BY <2>1, <2>2, Frame DEF IInv, TypeOK, Belongs, BusyIsUnderWay
<1>5. ASSUME NEW t \in Tabs, ClickTab(t) PROVE IInv'
    <2>1. /\ [dialog EXCEPT !.tab = t] \in DialogStates
          /\ [dialog EXCEPT !.tab = t].busy = dialog.busy
        BY DEF IInv, TypeOK, DialogStates
    <2> QED BY <1>4, <1>5, <2>1 DEF ClickTab
<1>6. ASSUME NEW h \in Files \cup {None}, ChooseFile(h) PROVE IInv'
    <2>1. /\ [dialog EXCEPT !.file = h] \in DialogStates
          /\ [dialog EXCEPT !.file = h].busy = dialog.busy
        BY DEF IInv, TypeOK, DialogStates
    <2> QED BY <1>4, <1>6, <2>1 DEF ChooseFile
<1>7. ASSUME NEW h \in Magnets \cup {None}, TypeMagnet(h) PROVE IInv'
    <2>1. /\ [dialog EXCEPT !.magnet = h] \in DialogStates
          /\ [dialog EXCEPT !.magnet = h].busy = dialog.busy
        BY DEF IInv, TypeOK, DialogStates
    <2> QED BY <1>4, <1>7, <2>1 DEF TypeMagnet
<1>8. CASE ClickAdd \/ PressEnter
    BY <1>8, SubmitInv DEF ClickAdd, PressEnter
<1> QED BY <1>1, <1>2, <1>3, <1>5, <1>6, <1>7, <1>8 DEF UserOnDialog

LEMMA AddSucceededInv ==
    ASSUME IInv, NEW c \in Calls, AddSucceeded(c)
    PROVE  IInv'
<1> DEFINE f == [call EXCEPT ![c] = NoCall]
<1>1. /\ call[c].kind = "add" /\ Close(f)
      /\ UNCHANGED <<engine, torrents, rows, gestures, foreign>>
    BY DEF AddSucceeded
<1>2. /\ f \in [Calls -> Requests] /\ Belonging(f)
      /\ \A k \in Hashes : OfRow(call, k) /\ ~(call[c].mine /\ call[c].row = k) => OfRow(f, k)
    BY EndFacts DEF IInv
<1> HIDE DEF f
<1>3. call[c].row = None
    BY <1>1 DEF IInv, Belongs, Belonging, RowKinds
<1>4. \A k \in Hashes : rows'[k].ask \in {None, k} /\ (rows'[k].busy => OfRow(f, k))
    BY <1>1, <1>2, <1>3, Bounds DEF IInv, Belongs, BusyIsUnderWay
<1> QED BY <1>1, <1>2, <1>4, CloseInv DEF IInv, TypeOK

LEMMA AddFailedInv ==
    ASSUME IInv, NEW c \in Calls, AddFailed(c)
    PROVE  IInv'
<1>1. /\ call' = [call EXCEPT ![c] = NoCall] /\ call[c].kind = "add"
      /\ UNCHANGED <<engine, torrents, rows, showAdd, gestures, foreign>>
    BY DEF AddFailed
<1>2. /\ call' \in [Calls -> Requests] /\ Belonging(call')
      /\ \A k \in Hashes : OfRow(call, k) /\ ~(call[c].mine /\ call[c].row = k) => OfRow(call', k)
      /\ OfDialog(call) /\ ~(call[c].mine /\ call[c].kind = "add") => OfDialog(call')
    BY <1>1, EndFacts DEF IInv
<1>3. call[c].row = None
    BY <1>1 DEF IInv, Belongs, Belonging, RowKinds
<1>4. \A k \in Hashes : rows'[k].ask \in {None, k} /\ (rows'[k].busy => OfRow(call', k))
    BY <1>1, <1>2, <1>3, Bounds DEF IInv, Belongs, BusyIsUnderWay
<1>5. dialog' \in DialogStates /\ (dialog'.busy => dialog.busy /\ ~call[c].mine)
    BY DEF AddFailed, IInv, TypeOK, DialogStates
<1>6. dialog'.busy => OfDialog(call')
    BY <1>2, <1>5 DEF IInv, BusyIsUnderWay
<1> QED BY <1>1, <1>2, <1>4, <1>5, <1>6, Frame DEF IInv, TypeOK

\* a step of the server: the page keeps everything but the request's state
LEMMA ServerInv ==
    ASSUME IInv, NEW c \in Calls, NEW stage \in Stages, At(c, stage), engine' \in Seq(Sessions),
           UNCHANGED <<torrents, rows, showAdd, dialog, gestures, foreign>>
    PROVE  IInv'
<1>1. /\ call' \in [Calls -> Requests] /\ Belonging(call')
      /\ \A k \in Hashes : OfRow(call, k) => OfRow(call', k)
      /\ OfDialog(call) => OfDialog(call')
    BY AnswerFacts DEF IInv
<1> QED BY <1>1, Frame DEF IInv, TypeOK, Belongs, BusyIsUnderWay

LEMMA HandleInv ==
    ASSUME IInv, NEW c \in Calls, Handle(c) \/ StopHangs(c) \/ Lose(c)
    PROVE  IInv'
<1> DEFINE h == call[c].hash
<1>1. engine \in Seq(Sessions)
    BY DEF IInv, TypeOK
<1>2. /\ \A ok \in BOOLEAN : Answer(c, ok) => \E stage \in Stages : At(c, stage)
      /\ {"adding", "stopping", "hanging", "done", "failed"} \subseteq Stages
    BY DEF Answer, Stages
<1>3. CASE HandleAdd(c)
    <2>1. \E stage \in Stages : At(c, stage)
        BY <1>2, <1>3 DEF HandleAdd
    <2>2. h \in Hashes
        BY <1>3 DEF HandleAdd, IInv, Belongs, Belonging
    <2>3. engine' \in Seq(Sessions)
        BY <1>1, <1>3, <2>2, AddedType, AtTheEnd DEF HandleAdd
    <2> QED BY <1>3, <2>1, <2>3, ServerInv DEF HandleAdd
<1>4. CASE InsertAdded(c)
    <2>1. \E stage \in Stages : At(c, stage)
        BY <1>2, <1>4 DEF InsertAdded
    <2>2. h \in Hashes
        BY <1>4 DEF InsertAdded, IInv, Belongs, Belonging
    <2>3. engine' \in Seq(Sessions)
        BY <1>1, <1>4, <2>2, AddedType DEF InsertAdded
    <2> QED BY <1>4, <2>1, <2>3, ServerInv DEF InsertAdded
<1>5. CASE HandleRemove(c)
    <2>1. \E stage \in Stages : At(c, stage)
        BY <1>2, <1>5 DEF HandleRemove
    <2>2. engine' \in Seq(Sessions)
        BY <1>1, <1>5, WithoutType DEF HandleRemove
    <2> QED BY <1>5, <2>1, <2>2, ServerInv DEF HandleRemove
<1>6. CASE HandlePause(c)
    <2>1. \E stage \in Stages : At(c, stage)
        BY <1>2, <1>6 DEF HandlePause
    <2>2. engine' \in Seq(Sessions)
        BY <1>1, <1>6, WithType DEF HandlePause, States
    <2> QED BY <1>6, <2>1, <2>2, ServerInv DEF HandlePause
<1>7. CASE HandleResume(c)
    <2>1. \E stage \in Stages : At(c, stage)
        BY <1>2, <1>7 DEF HandleResume, In
    <2>2. engine' \in Seq(Sessions)
        BY <1>1, <1>7, WithType DEF HandleResume, States
    <2> QED BY <1>7, <2>1, <2>2, ServerInv DEF HandleResume
<1>8. CASE StopReturns(c) \/ StopHangs(c) \/ Lose(c)
    <2>1. \E stage \in Stages : At(c, stage)
        BY <1>2, <1>8 DEF StopReturns, StopHangs, Lose
    <2> QED BY <1>1, <1>8, <2>1, ServerInv DEF StopReturns, StopHangs, Lose
<1> QED BY <1>3, <1>4, <1>5, <1>6, <1>7, <1>8 DEF Handle

\* a step that only changes the server's list
LEMMA EngineInv ==
    ASSUME IInv, engine' \in Seq(Sessions), foreign' \in 0 .. MaxForeign,
           UNCHANGED <<torrents, rows, showAdd, dialog, call, gestures>>
    PROVE  IInv'
BY Frame DEF IInv, TypeOK, Belongs, BusyIsUnderWay

LEMMA OthersInv ==
    ASSUME IInv, NEW h \in Hashes, FetchEnds(h) \/ ForeignAdds(h) \/ ForeignRemoves(h)
    PROVE  IInv'
<1>1. engine \in Seq(Sessions) /\ foreign \in 0 .. MaxForeign
    BY DEF IInv, TypeOK
<1>2. CASE FetchEnds(h)
    <2>1. PICK i \in DOMAIN engine, s \in {<<"downloading", "there">>, <<"error", "failed">>} :
              engine' = [engine EXCEPT ![i] = [hash |-> h, state |-> s[1], info |-> s[2]]]
        BY <1>2 DEF FetchEnds
    <2>2. [hash |-> h, state |-> s[1], info |-> s[2]] \in Sessions
        BY <2>1 DEF Sessions, States
    <2>3. engine' \in Seq(Sessions)
        BY <1>1, <2>1, <2>2, ExceptSeq, LenProperties
    <2> QED BY <1>1, <1>2, <2>3, EngineInv DEF FetchEnds
<1>3. ASSUME NEW list \in Seq(Sessions), Other(list) PROVE IInv'
    <2>1. foreign' \in 0 .. MaxForeign
        BY <1>1, <1>3, Bounds DEF Other
    <2> QED BY <1>3, <2>1, EngineInv DEF Other
<1>4. CASE ForeignAdds(h)
    BY <1>1, <1>3, <1>4, AddedType, AtTheEnd DEF ForeignAdds
<1>5. CASE ForeignRemoves(h)
    BY <1>1, <1>3, <1>5, WithoutType DEF ForeignRemoves
<1> QED BY <1>2, <1>4, <1>5

LEMMA StepInv == IInv /\ [Next]_vars => IInv'
<1> SUFFICES ASSUME IInv, [Next]_vars PROVE IInv'
    OBVIOUS
<1>1. CASE UNCHANGED vars
    BY <1>1, Frame DEF vars, IInv, TypeOK, Belongs, BusyIsUnderWay
<1>2. ASSUME NEW c \in Calls, CallStep(c) \/ Lose(c) \/ StopHangs(c) PROVE IInv'
    BY <1>2, HandleInv, RowAnsweredInv, AddSucceededInv, AddFailedInv DEF CallStep
<1> QED BY <1>1, <1>2, ShowInv, RowInv, DialogInv, OthersInv DEF Next

----------------------------------------------------------------------------

LEMMA Invariant == Spec => []IInv
BY InitInv, StepInv, PTL DEF Spec

\* Every variable keeps its type.
THEOREM TypeCorrect == Spec => []TypeOK
<1>1. IInv => TypeOK
    BY DEF IInv
<1> QED BY <1>1, Invariant, PTL

\* An open alert names the torrent it was opened for, however the list is
\* shown anew under it.
THEOREM AlertsNameTheirTorrent == Spec => []AlertNamesItsTorrent
<1>1. IInv => AlertNamesItsTorrent
    BY RowOfTorrent DEF IInv, Belongs, AlertNamesItsTorrent, Row
<1> QED BY <1>1, Invariant, PTL

\* A row or a dialog is only busy while a request of its own is under way.
THEOREM BusyControlsWait == Spec => []BusyIsUnderWay
<1>1. IInv => BusyIsUnderWay
    BY DEF IInv
<1> QED BY <1>1, Invariant, PTL

============================================================================
