-------------------------- MODULE PageControls --------------------------
(***************************************************************************)
(* What the user can do on the page of the web client and what comes of it *)
(* at the server: the rows of the list (TorrentList.jsx, TorrentRow.jsx)   *)
(* with the alert before a removal (Alert.jsx), the dialog that adds a     *)
(* torrent (AddModal.jsx, App.jsx), and the handlers behind them           *)
(* (api.js, server.go, engine.go).                                         *)
(*                                                                         *)
(* Every click awaits a request, and the page goes on meanwhile: the list  *)
(* is shown anew, rows and dialogs come and go, other clients use the same *)
(* server.  A callback that ends up at a component that is no longer       *)
(* mounted changes nothing there.                                          *)
(*                                                                         *)
(* How the list reaches the page is LivePage's subject: here it may be     *)
(* shown at any moment, which stands for the pushes and for the refresh    *)
(* that ends every action.  Nothing on the screen keeps the keyboard out   *)
(* of what a dialog or an alert covers.                                    *)
(*                                                                         *)
(* Pause and Remove of a torrent that has peers end with Stop of its peer  *)
(* manager, which waits for the lock of the pool; after a write error that *)
(* lock is never released (PeerPool), the handler never answers and fetch  *)
(* waits without a timeout.  Here any such request may come to hang.       *)
(***************************************************************************)
EXTENDS Naturals, Sequences, SequencesExt

CONSTANTS
    Files,         \* torrents the user has a .torrent file of
    Magnets,       \* torrents the user has a magnet link of
    None,          \* no file chosen, no link typed, no alert
    MaxCalls,      \* bound: requests under way at once
    MaxGestures,   \* bound: clicks and keys of the user
    MaxForeign     \* bound: actions of other clients

Hashes == Files \cup Magnets

ASSUME PageControlsAssumption ==
    /\ Files \cap Magnets = {} /\ None \notin Hashes
    /\ MaxCalls \in Nat /\ MaxGestures \in Nat /\ MaxForeign \in Nat

Calls == 1 .. MaxCalls
Tabs == {"file", "magnet"}

\* to the buttons of a row, seeding is like downloading, checking like
\* fetching and stopped like paused
States == {"fetching", "downloading", "paused", "error"}

VARIABLES
    engine,     \* what List returns, oldest first; info: whether it has the
                \* info dictionary, or is a magnet's placeholder without it
    torrents,   \* the list the page shows
    rows,       \* rows[k]: state of the row with key k
    showAdd,    \* the dialog is open
    dialog,     \* its tab, what each tab holds, busy
    call,       \* call[c]: a request of a row or of a dialog
    gestures, foreign

vars == <<engine, torrents, rows, showAdd, dialog, call, gestures, foreign>>

Sessions == [hash : Hashes, state : States, info : {"there", "wanted", "failed"}]
RowStates == [busy : BOOLEAN, ask : Hashes \cup {None}]
DialogStates ==
    [tab : Tabs, file : Files \cup {None}, magnet : Magnets \cup {None}, busy : BOOLEAN]

\* row: the key of the row that sent it, if one did; mine: who sent it is
\* still mounted and will see the answer
RowKinds == {"pause", "resume", "remove"}

\* where a request is: its handler has not begun, is between the check and the
\* insertion of an Add, waits in Stop, or waits there for ever; the answer is
\* on its way
Stages == {"idle", "sent", "adding", "stopping", "hanging", "done", "failed"}
Requests == [kind : RowKinds \cup {"add", "none"}, hash : Hashes \cup {None},
             row : Hashes \cup {None}, at : Stages, mine : BOOLEAN]

In(list, h) == \E i \in DOMAIN list : list[i].hash = h

\* mutant: a pause puts a session into a state no button knows
Stopping(list, h, state) ==
    [i \in DOMAIN list |->
        IF list[i].hash = h THEN [list[i] EXCEPT !.state = "stopping"] ELSE list[i]]

With(list, h, state) ==
    [i \in DOMAIN list |-> IF list[i].hash = h THEN [list[i] EXCEPT !.state = state] ELSE list[i]]
Without(list, h) ==
    IF In(list, h) THEN RemoveAt(list, CHOOSE i \in DOMAIN list : list[i].hash = h) ELSE list
IsPlaceholder(list, h) == \E i \in DOMAIN list : list[i].hash = h /\ list[i].info # "there"

----------------------------------------------------------------------------
(***************************************************************************)
(* Rows.  React keeps a row's state as long as its key is in the list.     *)
(* ask is the torrent the alert was opened for; the code only knows that   *)
(* the alert is open, and names the row's torrent.                         *)
(***************************************************************************)
\* mutant: key={i}, the row's place in the list
KeyOfPlace(list, i) == (CHOOSE f \in [DOMAIN list -> Hashes] :
                            \A j, k \in DOMAIN list : f[j] = f[k] => j = k)[i]

Key(list, i) == list[i].hash
Keys(list) == {Key(list, i) : i \in DOMAIN list}
Fresh == [busy |-> FALSE, ask |-> None]

NoCall == [kind |-> "none", hash |-> None, row |-> None, at |-> "idle", mine |-> FALSE]

\* the list is shown: TorrentList renders a row for each of its torrents
Show ==
    /\ torrents # engine
    /\ torrents' = engine
    /\ rows' = [k \in Hashes |-> IF k \in Keys(torrents) \cap Keys(engine) THEN rows[k] ELSE Fresh]
    /\ call' = [c \in Calls |->
                   IF call[c].row # None /\ call[c].row \notin Keys(engine)
                   THEN [call[c] EXCEPT !.mine = FALSE] ELSE call[c]]
    /\ UNCHANGED <<engine, showAdd, dialog, gestures, foreign>>

Gesture == gestures < MaxGestures /\ gestures' = gestures + 1

\* the request goes out under the first number that is free
Send(kind, h, row) ==
    \E c \in Calls :
        /\ call[c] = NoCall /\ \A d \in Calls : call[d] = NoCall => c <= d
        /\ call' = [call EXCEPT ![c] = [kind |-> kind, hash |-> h, row |-> row,
                                        at |-> "sent", mine |-> TRUE]]

\* act(fn) of row i, from its state after the click
Act(i, kind, row) ==
    /\ Gesture
    /\ Send(kind, torrents[i].hash, Key(torrents, i))
    /\ rows' = [rows EXCEPT ![Key(torrents, i)] = [row EXCEPT !.busy = TRUE]]
    /\ UNCHANGED <<engine, torrents, showAdd, dialog, foreign>>

Row(i) == rows[Key(torrents, i)]

\* only fetching and checking disable the button: a failed magnet has it too
ClickPause(i) ==
    /\ ~Row(i).busy /\ torrents[i].state \in {"downloading", "error"}
    /\ Act(i, "pause", Row(i))

ClickResume(i) ==
    /\ ~Row(i).busy /\ torrents[i].state = "paused"
    /\ Act(i, "resume", Row(i))

ClickRemove(i) ==
    /\ Gesture
    /\ ~Row(i).busy /\ Row(i).ask = None
    /\ rows' = [rows EXCEPT ![Key(torrents, i)].ask = torrents[i].hash]
    /\ UNCHANGED <<engine, torrents, showAdd, dialog, call, foreign>>

\* either button of the alert; deleteFiles changes nothing in the engine
ConfirmRemove(i) ==
    /\ Row(i).ask # None
    /\ Act(i, "remove", [Row(i) EXCEPT !.ask = None])

CancelRemove(i) ==
    /\ Gesture
    /\ Row(i).ask # None
    /\ rows' = [rows EXCEPT ![Key(torrents, i)].ask = None]
    /\ UNCHANGED <<engine, torrents, showAdd, dialog, call, foreign>>

\* mutant: act without finally
Forget(c) == IF call[c].at = "done" THEN [rows EXCEPT ![call[c].row].busy = FALSE] ELSE rows

\* the finally of act, whatever the answer was
Release(c) == [rows EXCEPT ![call[c].row].busy = FALSE]

RowAnswered(c) ==
    /\ call[c].kind \in RowKinds
    /\ call[c].at \in {"done", "failed"}
    /\ rows' = IF call[c].mine THEN Release(c) ELSE rows
    /\ call' = [call EXCEPT ![c] = NoCall]
    /\ UNCHANGED <<engine, torrents, showAdd, dialog, gestures, foreign>>

----------------------------------------------------------------------------
(***************************************************************************)
(* The dialog.  Each opening mounts a new one, with nothing in it.         *)
(***************************************************************************)
NewDialog == [tab |-> "file", file |-> None, magnet |-> None, busy |-> FALSE]

\* the requests of a dialog that goes away are no longer its own
Orphaned(f) ==
    [c \in Calls |-> IF f[c].kind = "add" THEN [f[c] EXCEPT !.mine = FALSE] ELSE f[c]]

ClickAddTorrent ==
    /\ Gesture
    /\ ~showAdd
    /\ showAdd' = TRUE
    /\ UNCHANGED <<engine, torrents, rows, dialog, call, foreign>>

Close(f) == showAdd' = FALSE /\ dialog' = NewDialog /\ call' = Orphaned(f)

\* Cancel, or a click beside the dialog
ClickCancel ==
    /\ Gesture
    /\ showAdd
    /\ Close(call)
    /\ UNCHANGED <<engine, torrents, rows, foreign>>

\* the dialog and every alert listen on the window
PressEscape ==
    /\ Gesture
    /\ showAdd \/ \E k \in Hashes : rows[k].ask # None
    /\ rows' = [k \in Hashes |-> [rows[k] EXCEPT !.ask = None]]
    /\ Close(call)
    /\ UNCHANGED <<engine, torrents, foreign>>

Edit(new) ==
    /\ Gesture
    /\ showAdd
    /\ dialog' = new /\ dialog' # dialog
    /\ UNCHANGED <<engine, torrents, rows, showAdd, call, foreign>>

ClickTab(t) == Edit([dialog EXCEPT !.tab = t])
ChooseFile(h) == dialog.tab = "file" /\ Edit([dialog EXCEPT !.file = h])
TypeMagnet(h) == dialog.tab = "magnet" /\ Edit([dialog EXCEPT !.magnet = h])

\* submit: what it was given is what the tab holds now
Submit ==
    LET h == IF dialog.tab = "file" THEN dialog.file ELSE dialog.magnet IN
    /\ Gesture
    /\ showAdd
    /\ h # None
    /\ Send("add", h, None)
    /\ dialog' = [dialog EXCEPT !.busy = TRUE]
    /\ UNCHANGED <<engine, torrents, rows, showAdd, foreign>>

ClickAdd == ~dialog.busy /\ Submit

\* unlike the button, Enter in the field does not look at busy
PressEnter == dialog.tab = "magnet" /\ Submit

\* onAdded closes the dialog that is open, if any; the request's own may have
\* been closed before
AddSucceeded(c) ==
    /\ call[c].kind = "add" /\ call[c].at = "done"
    /\ Close([call EXCEPT ![c] = NoCall])
    /\ UNCHANGED <<engine, torrents, rows, gestures, foreign>>

AddFailed(c) ==
    /\ call[c].kind = "add" /\ call[c].at = "failed"
    /\ dialog' = IF call[c].mine THEN [dialog EXCEPT !.busy = FALSE] ELSE dialog
    /\ call' = [call EXCEPT ![c] = NoCall]
    /\ UNCHANGED <<engine, torrents, rows, showAdd, gestures, foreign>>

----------------------------------------------------------------------------
(***************************************************************************)
(* The server.                                                             *)
(***************************************************************************)

At(c, stage) == call' = [call EXCEPT ![c].at = stage]
Answer(c, ok) == At(c, IF ok THEN "done" ELSE "failed")

\* Add and AddMagnet put the session into the map whatever is there by then;
\* List sorts by the time the request was checked, so it may come anywhere
NewSession(h) ==
    IF h \in Magnets THEN [hash |-> h, state |-> "fetching", info |-> "wanted"]
                     ELSE [hash |-> h, state |-> "downloading", info |-> "there"]
Added(h, i) == InsertAt(Without(engine, h), i, NewSession(h))
Places(h) == 1 .. Len(Without(engine, h)) + 1

\* 409 for a torrent that is there; anything else may be wrong with a new one.
\* A magnet's placeholder is put there under the same lock.
HandleAdd(c) ==
    LET h == call[c].hash IN
    /\ call[c].kind = "add" /\ call[c].at = "sent"
    /\ \/ Answer(c, FALSE) /\ UNCHANGED engine
       \/ ~In(engine, h) /\ h \in Files /\ At(c, "adding") /\ UNCHANGED engine
       \/ ~In(engine, h) /\ h \in Magnets /\ Answer(c, TRUE)
          /\ engine' = Added(h, Len(engine) + 1)
    /\ UNCHANGED <<torrents, rows, showAdd, dialog, gestures, foreign>>

\* startSession, long after the check: files are created meanwhile
InsertAdded(c) ==
    /\ call[c].kind = "add" /\ call[c].at = "adding"
    /\ \/ Answer(c, FALSE) /\ UNCHANGED engine
       \/ \E i \in Places(call[c].hash) :
             Answer(c, TRUE) /\ engine' = Added(call[c].hash, i)
    /\ UNCHANGED <<torrents, rows, showAdd, dialog, gestures, foreign>>

\* a placeholder has no peers to stop
HandleRemove(c) ==
    /\ call[c].kind = "remove" /\ call[c].at = "sent"
    /\ At(c, CASE ~In(engine, call[c].hash) -> "failed"
               [] IsPlaceholder(engine, call[c].hash) -> "done"
               [] OTHER -> "stopping")
    /\ engine' = Without(engine, call[c].hash)
    /\ UNCHANGED <<torrents, rows, showAdd, dialog, gestures, foreign>>

\* Pause has set the state when it calls Stop of the peers a placeholder does
\* not have; the panic is answered with 500
HandlePause(c) ==
    /\ call[c].kind = "pause" /\ call[c].at = "sent"
    /\ At(c, IF ~In(engine, call[c].hash) \/ IsPlaceholder(engine, call[c].hash)
             THEN "failed" ELSE "stopping")
    /\ engine' = With(engine, call[c].hash, "paused")
    /\ UNCHANGED <<torrents, rows, showAdd, dialog, gestures, foreign>>

\* peers.Stop has the lock of the pool, and the rest of the handler follows
StopReturns(c) ==
    /\ call[c].at = "stopping"
    /\ Answer(c, TRUE)
    /\ UNCHANGED <<engine, torrents, rows, showAdd, dialog, gestures, foreign>>

\* a broadcast of this pool waits for ever with the lock held
StopHangs(c) ==
    /\ call[c].at = "stopping"
    /\ At(c, "hanging")
    /\ UNCHANGED <<engine, torrents, rows, showAdd, dialog, gestures, foreign>>

HandleResume(c) ==
    /\ call[c].kind = "resume" /\ call[c].at = "sent"
    /\ Answer(c, In(engine, call[c].hash))
    /\ engine' = IF \E i \in DOMAIN engine :
                        engine[i].hash = call[c].hash /\ engine[i].state = "paused"
                 THEN With(engine, call[c].hash, "downloading")
                 ELSE engine
    /\ UNCHANGED <<torrents, rows, showAdd, dialog, gestures, foreign>>

Handle(c) ==
    \/ HandleAdd(c) \/ InsertAdded(c) \/ HandleResume(c)
    \/ HandleRemove(c) \/ HandlePause(c) \/ StopReturns(c)

\* The request or its answer is lost: to the page both are a failure.  A
\* handler that still runs may insert its torrent after that; it is then like
\* another client's.
Lose(c) ==
    /\ call[c].at \in {"sent", "adding", "stopping", "hanging", "done"}
    /\ Answer(c, FALSE)
    /\ UNCHANGED <<engine, torrents, rows, showAdd, dialog, gestures, foreign>>

\* fetchMetadata ends: a session in the placeholder's place, or an error
FetchEnds(h) ==
    /\ \E i \in DOMAIN engine, s \in {<<"downloading", "there">>, <<"error", "failed">>} :
        /\ engine[i].hash = h /\ engine[i].info = "wanted"
        /\ engine' = [engine EXCEPT ![i] = [hash |-> h, state |-> s[1], info |-> s[2]]]
    /\ UNCHANGED <<torrents, rows, showAdd, dialog, call, gestures, foreign>>

Other(list) ==
    /\ foreign < MaxForeign /\ foreign' = foreign + 1
    /\ engine' = list
    /\ UNCHANGED <<torrents, rows, showAdd, dialog, call, gestures>>

ForeignAdds(h) == ~In(engine, h) /\ Other(Added(h, Len(engine) + 1))
ForeignRemoves(h) == In(engine, h) /\ Other(Without(engine, h))

----------------------------------------------------------------------------

Init ==
    /\ engine = <<>>
    /\ torrents = <<>>
    /\ rows = [k \in Hashes |-> Fresh]
    /\ showAdd = FALSE /\ dialog = NewDialog
    /\ call = [c \in Calls |-> NoCall]
    /\ gestures = 0 /\ foreign = 0

UserOnRow(i) ==
    \/ ClickPause(i) \/ ClickResume(i)
    \/ ClickRemove(i) \/ ConfirmRemove(i) \/ CancelRemove(i)

UserOnDialog ==
    \/ ClickAddTorrent \/ ClickCancel \/ PressEscape
    \/ \E t \in Tabs : ClickTab(t)
    \/ \E h \in Files \cup {None} : ChooseFile(h)
    \/ \E h \in Magnets \cup {None} : TypeMagnet(h)
    \/ ClickAdd \/ PressEnter

CallStep(c) == Handle(c) \/ RowAnswered(c) \/ AddSucceeded(c) \/ AddFailed(c)

Next ==
    \/ Show
    \/ \E i \in DOMAIN torrents : UserOnRow(i)
    \/ UserOnDialog
    \/ \E c \in Calls : CallStep(c) \/ Lose(c) \/ StopHangs(c)
    \/ \E h \in Hashes : FetchEnds(h) \/ ForeignAdds(h) \/ ForeignRemoves(h)

Spec == Init /\ [][Next]_vars

\* Requests are handled or fail and their callbacks run, except that Stop may
\* hang; the page is shown the server's list again and again (LivePage,
\* PageCatchesUp).
Fairness == WF_vars(Show) /\ \A c \in Calls : WF_vars(CallStep(c))

FairSpec == Spec /\ Fairness

----------------------------------------------------------------------------
(***************************************************************************)
(* Properties.                                                             *)
(***************************************************************************)

\* Every variable stays in its type.
TypeOK ==
    /\ engine \in Seq(Sessions) /\ torrents \in Seq(Sessions)
    /\ rows \in [Hashes -> RowStates]
    /\ showAdd \in BOOLEAN /\ dialog \in DialogStates
    /\ call \in [Calls -> Requests]
    /\ gestures \in 0 .. MaxGestures /\ foreign \in 0 .. MaxForeign

\* However the list changes under an open alert, it names, and its buttons
\* remove, the torrent it was opened for (TorrentList.jsx:30).
AlertNamesItsTorrent ==
    \A i \in DOMAIN torrents : Row(i).ask \in {None, torrents[i].hash}

\* A control is only disabled while a request it sent itself is under way,
\* whatever requests of earlier rows and dialogs end meanwhile.
OfRow(f, k) == \E c \in Calls : f[c].mine /\ f[c].row = k
OfDialog(f) == \E c \in Calls : f[c].mine /\ f[c].kind = "add"

BusyIsUnderWay ==
    /\ \A k \in Hashes : rows[k].busy => OfRow(call, k)
    /\ dialog.busy => OfDialog(call)

\* When the user and the other clients have come to rest, the page shows what
\* the server has, and nothing on it is disabled any more but the rows whose
\* own Pause or Remove hangs in Stop (TorrentRow.jsx:22-25 waits for the
\* answer, api.js:39-49 without a timeout): a hanging request of a row that
\* went away, or of another row, disables nothing.
Hanging(k) == \E c \in Calls : call[c].mine /\ call[c].row = k /\ call[c].at = "hanging"

PageSettles ==
    <>[](/\ torrents = engine
         /\ \A k \in Hashes : rows[k].busy => Hanging(k)
         /\ ~dialog.busy)

----------------------------------------------------------------------------
\* The inductive strengthening the proofs use.

\* a request belongs to a row or to a dialog, never to both, and an alert was
\* opened in the row of its torrent
Belonging(f) ==
    \A c \in Calls :
        /\ f[c].row # None <=> f[c].kind \in RowKinds
        /\ f[c].kind = "add" => f[c].hash \in Hashes

Belongs == Belonging(call) /\ \A k \in Hashes : rows[k].ask \in {None, k}

IInv == TypeOK /\ Belongs /\ BusyIsUnderWay

============================================================================
