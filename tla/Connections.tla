---------------------------- MODULE Connections ----------------------------
(***************************************************************************)
(* Saved connection profiles and the single active session:                *)
(* connections/service.rs over the SQLite rows of persistence/repository.rs*)
(* and the OS keychain, called by useConnectionWorkspace.ts.  A profile is *)
(* a row in SQLite and, when the row names one, a password in the keychain;*)
(* nothing makes the two one transaction, and any step may fail or be the  *)
(* last before a crash.  The workspace runs one of save, test, delete and  *)
(* disconnect at a time and only when it is not busy; an activation (a     *)
(* saved query opened, a profile clicked) is not held back.                *)
(***************************************************************************)
EXTENDS FiniteSets

CONSTANTS Profiles,   \* ids of profiles, each created at most once
          Edited,     \* those the user saves and deletes; the others stay as they are
          Acts,       \* activations that may be in flight together
          Edit,       \* the one gated call of the workspace
          Silent,     \* those whose server takes the connection and may never answer
          NoProfile

ASSUME ConnAssumption ==
    /\ Edited \subseteq Profiles /\ Silent \subseteq Profiles
    /\ Edit \notin Acts /\ NoProfile \notin Profiles \cup Acts

VARIABLES row,        \* saved_connections: unborn, bare, secret (names one), gone
          keychain,   \* profiles with a password in the OS keychain
          selected,   \* app_settings: connections.selectedConnectionId
          session,    \* profile of active_session, in memory
          call,       \* handlers in flight
          shown,      \* the workspace's activeSession
          latest,     \* the activation in flight that latestActivationIdRef points at;
                      \* pending.connecting is TRUE while there is one
          torn        \* profiles whose save or delete stopped half way (history)

durable == <<row, keychain, selected>>
ui == <<shown, latest>>
vars == <<durable, session, call, ui, torn>>

Calls == Acts \cup {Edit}
Rows == {"unborn", "bare", "secret", "gone"}
Ops == {"none", "connect", "delete", "save", "test", "disconnect"}
Stages == {"idle", "read", "driver", "persist", "publish",
           "check", "take", "keychain", "row", "select", "reply", "failed", "end"}

\* ref: the row read names a password; typed: the draft carries one;
\* open: the server took the connection; ended: a session was taken.
Handling(op, p, at, typed) ==
    [op |-> op, at |-> at, p |-> p, ref |-> FALSE, typed |-> typed, open |-> FALSE,
     ended |-> FALSE]
Idle == Handling("none", NoProfile, "idle", FALSE)

(* Rows and settings (persistence/repository.rs). *)
Live(p) == row[p] \in {"bare", "secret"}
Listed == {p \in Profiles : Live(p)}
NamesSecret(p) == row[p] = "secret"
UpsertRow(p, named) == row' = [row EXCEPT ![p] = IF named THEN "secret" ELSE "bare"]
RemoveRow(p) == row' = [row EXCEPT ![p] = "gone"]
SaveSelected(p) == selected' = p
ClearSelected(p) == selected' = IF selected = p THEN NoProfile ELSE selected

(* Passwords (connections/secret_store.rs). *)
HasPassword(p) == p \in keychain
StorePassword(p) == keychain' = keychain \cup {p}
ErasePassword(p) == keychain' = keychain \ {p}

At(c, op, at) == call[c].op = op /\ call[c].at = at
Start(c, op, p, at) == call' = [call EXCEPT ![c] = Handling(op, p, at, FALSE)]
GoTo(c, at) == call' = [call EXCEPT ![c].at = at]
Fail(c) == Start(c, call[c].op, NoProfile, IF call[c].op = "connect" THEN "end" ELSE "failed")
Answer(c) == Start(c, call[c].op, NoProfile, "reply")
(* Mutant: the finished call keeps its record. *)
EndKeepsOp(c) == call' = [call EXCEPT ![c].at = "idle"]

End(c) == call' = [call EXCEPT ![c] = Idle]

ConnInit ==
    /\ row = [p \in Profiles |-> IF p \in Edited THEN "unborn" ELSE "bare"]
    /\ keychain = {} /\ torn = {}
    /\ selected = NoProfile /\ session = NoProfile /\ shown = NoProfile
    /\ call = [c \in Calls |-> Idle]
    /\ latest = NoProfile

---------------------------------------------------------------------------
(* The workspace starts calls. *)

\* isBusy; pending.loadingDetails, which only holds more back, is left out.
Busy == call[Edit] # Idle \/ latest # NoProfile

\* connectConnection: not held back by Busy; the profile already shown
\* needs no call, only the list is refreshed.
Activate(a, p) ==
    /\ call[a] = Idle
    /\ row[p] # "unborn"
    /\ latest' = a
    /\ Start(a, "connect", p, IF shown = p THEN "end" ELSE "read")
    /\ UNCHANGED <<durable, session, shown, torn>>

StartSave(p, typed) ==
    /\ ~Busy
    /\ row[p] # "gone"
    /\ LET at == IF Live(p) THEN "read" ELSE "keychain"
       IN call' = [call EXCEPT ![Edit] = Handling("save", p, at, typed)]
    /\ UNCHANGED <<durable, session, ui, torn>>

StartTest(p, typed) ==
    /\ ~Busy
    /\ p \in Listed
    /\ Start(Edit, "test", p, IF typed THEN "driver" ELSE "read")
    /\ UNCHANGED <<durable, session, ui, torn>>

StartDelete(p) ==
    /\ ~Busy
    /\ p \in Listed
    /\ Start(Edit, "delete", p, "read")
    /\ UNCHANGED <<durable, session, ui, torn>>

StartDisconnect ==
    /\ ~Busy
    /\ shown # NoProfile
    /\ Start(Edit, "disconnect", NoProfile, "take")
    /\ UNCHANGED <<durable, session, ui, torn>>

\* Selecting a profile loads its details: get_saved_connection reads the row
\* and then saves the selection, by when the row may be gone.
SelectProfile(p) ==
    /\ row[p] # "unborn"
    /\ SaveSelected(p)
    /\ UNCHANGED <<row, keychain, session, call, ui, torn>>

---------------------------------------------------------------------------
(* Handlers. *)

AfterRead(op) == CASE op \in {"connect", "test"} -> "driver"
                   [] op = "delete" -> "check"
                   [] op = "save"   -> "keychain"

\* load_saved_secret: nothing to load, or an entry in the keychain
SecretLoads(p) == NamesSecret(p) => HasPassword(p)

\* load_saved_record, or the read of the existing row before a save; a row
\* that is not there fails every call but a save.  connect and test also
\* need the password the row names.
ReadRow(c) ==
    /\ call[c].at = "read"
    /\ LET p == call[c].p
       IN \/ /\ Live(p) \/ call[c].op = "save"
             /\ call[c].op \in {"connect", "test"} => SecretLoads(p)
             /\ call' = [call EXCEPT ![c].at = AfterRead(call[c].op),
                                     ![c].ref = call[c].op \in {"save", "delete"} /\ NamesSecret(p)]
          \/ Fail(c)
    /\ UNCHANGED <<durable, session, ui, torn>>

\* A test opens a connection of its own and answers either way.
DriveTest(c) ==
    /\ At(c, "test", "driver")
    /\ Answer(c)
    /\ UNCHANGED <<durable, session, ui, torn>>

\* The driver builds a pool, gets a client and reads the server's metadata.
\* Only the socket's connect has a time limit.
DriverAnswers == {"open", "refused"}

(* Mutant: the old session is closed before the server has answered. *)
DriveAfterClose(c) ==
    /\ At(c, "connect", "driver")
    /\ \E answer \in DriverAnswers : IF answer = "open" THEN GoTo(c, "persist") ELSE Fail(c)
    /\ session' = NoProfile
    /\ UNCHANGED <<durable, ui, torn>>

\* Only a pool that is open goes on to take the old session out.
DriveConnect(c) ==
    /\ At(c, "connect", "driver")
    /\ \E answer \in DriverAnswers :
          IF answer = "open" THEN call' = [call EXCEPT ![c].at = "take", ![c].open = TRUE]
                             ELSE Fail(c)
    /\ UNCHANGED <<durable, session, ui, torn>>

\* disconnect_active_connection takes whatever session is there.
TakeSession(c) ==
    /\ call[c].at = "take"
    /\ session' = NoProfile
    /\ call' = [call EXCEPT ![c] =
          CASE @.op = "connect" -> [@ EXCEPT !.at = "persist"]
            [] @.op = "delete"  -> [@ EXCEPT !.at = "keychain", !.ended = session # NoProfile]
            [] OTHER            -> [@ EXCEPT !.at = "reply", !.p = session]]
    /\ UNCHANGED <<durable, ui, torn>>

\* One blocking task: the time stamp of the row, which nothing else reads,
\* then the selection; either may fail.
PersistConnect(c) ==
    /\ At(c, "connect", "persist")
    /\ \/ SaveSelected(call[c].p) /\ GoTo(c, "publish")
       \/ UNCHANGED selected /\ Fail(c)
    /\ UNCHANGED <<row, keychain, session, ui, torn>>

PublishSession(c) ==
    /\ At(c, "connect", "publish")
    /\ session' = call[c].p
    /\ GoTo(c, "reply")
    /\ UNCHANGED <<durable, ui, torn>>

\* delete_saved_connection compares the active id under the lock, releases
\* it, and takes whatever session is there when it comes back.
CheckActive(c) ==
    /\ At(c, "delete", "check")
    /\ GoTo(c, IF session = call[c].p THEN "take" ELSE "keychain")
    /\ UNCHANGED <<durable, session, ui, torn>>

DeletePassword(c) ==
    /\ At(c, "delete", "keychain")
    /\ \/ call[c].ref /\ ErasePassword(call[c].p) /\ GoTo(c, "row")
       \/ call[c].ref /\ UNCHANGED keychain /\ Fail(c)
       \/ ~call[c].ref /\ UNCHANGED keychain /\ GoTo(c, "row")
    /\ UNCHANGED <<row, selected, session, ui, torn>>

\* The password is stored and the row is not, or the other way round.
HalfWay ==
    IF \/ At(Edit, "save", "row") /\ call[Edit].typed /\ ~call[Edit].ref
       \/ At(Edit, "delete", "row") /\ call[Edit].ref
    THEN {call[Edit].p} ELSE {}

\* One blocking task: the row, then the selection if it was this profile.
DeleteRow(c) ==
    /\ At(c, "delete", "row")
    /\ LET p == call[c].p
       IN \/ /\ RemoveRow(p)
             /\ \/ ClearSelected(p) /\ GoTo(c, "reply")
                \/ selected = p /\ UNCHANGED selected /\ Fail(c)
             /\ UNCHANGED torn
          \/ Fail(c) /\ torn' = torn \cup HalfWay /\ UNCHANGED <<row, selected>>
    /\ UNCHANGED <<keychain, session, ui>>

SavePassword(c) ==
    /\ At(c, "save", "keychain")
    /\ \/ call[c].typed /\ StorePassword(call[c].p) /\ GoTo(c, "row")
       \/ call[c].typed /\ UNCHANGED keychain /\ Fail(c)
       \/ ~call[c].typed /\ UNCHANGED keychain /\ GoTo(c, "row")
    /\ UNCHANGED <<row, selected, session, ui, torn>>

(* Mutant: a save with a blank password forgets the reference of the row. *)
KeepsSecretTyped(c) == call[c].typed

\* The upsert keeps the reference of the row read unless a password came.
KeepsSecret(c) == call[c].typed \/ call[c].ref

SaveRow(c) ==
    /\ At(c, "save", "row")
    /\ \/ /\ UpsertRow(call[c].p, KeepsSecret(c)) /\ UNCHANGED torn
          /\ Start(c, "save", call[c].p, "select")
       \/ Fail(c) /\ torn' = torn \cup HalfWay /\ UNCHANGED row
    /\ UNCHANGED <<keychain, selected, session, ui>>

\* save_selected_connection_id, the last step of a save
SaveSelection(c) ==
    /\ At(c, "save", "select")
    /\ \/ SaveSelected(call[c].p) /\ Answer(c)
       \/ UNCHANGED selected /\ Fail(c)
    /\ UNCHANGED <<row, keychain, session, ui, torn>>

---------------------------------------------------------------------------
(* The workspace gets the answers. *)

\* Only the latest activation's answer is shown; the list is read next.
ConnectReply(a) ==
    /\ At(a, "connect", "reply")
    /\ IF latest = a
       THEN shown' = call[a].p /\ Start(a, "connect", NoProfile, "end")
       ELSE UNCHANGED shown /\ End(a)
    /\ UNCHANGED <<durable, session, latest, torn>>

(* Mutant: the activation that ends leaves pending.connecting as it is. *)
EndActivationStillPending(a) ==
    /\ At(a, "connect", "end")
    /\ End(a)
    /\ UNCHANGED <<durable, session, ui, torn>>

\* Only the latest activation resets pending.connecting.
EndActivation(a) ==
    /\ At(a, "connect", "end")
    /\ End(a)
    /\ latest' = IF latest = a THEN NoProfile ELSE latest
    /\ UNCHANGED <<durable, session, shown, torn>>

EditReply ==
    /\ call[Edit].at \in {"reply", "failed"}
    /\ End(Edit)
    /\ shown' = CASE At(Edit, "disconnect", "reply") /\ shown = call[Edit].p -> NoProfile
                  [] At(Edit, "delete", "reply") /\ call[Edit].ended         -> NoProfile
                  [] OTHER -> shown
    /\ UNCHANGED <<durable, session, latest, torn>>

\* The process ends at any point and starts again: rows, keychain and
\* selection survive, no session is opened on boot.
Restart ==
    /\ torn' = torn \cup HalfWay
    /\ call' = [c \in Calls |-> Idle]
    /\ session' = NoProfile /\ shown' = NoProfile /\ latest' = NoProfile
    /\ UNCHANGED durable

---------------------------------------------------------------------------
Handler(c) ==
    \/ ReadRow(c) \/ DriveTest(c) \/ DriveConnect(c) \/ TakeSession(c) \/ PersistConnect(c)
    \/ PublishSession(c) \/ CheckActive(c) \/ DeletePassword(c) \/ DeleteRow(c)
    \/ SavePassword(c) \/ SaveRow(c) \/ SaveSelection(c)

Replies(a) == ConnectReply(a) \/ EndActivation(a)

ConnNext ==
    \/ \E a \in Acts, p \in Profiles : Activate(a, p)
    \/ \E p \in Profiles : SelectProfile(p)
    \/ \E p \in Edited : StartDelete(p)
    \/ \E p \in Edited, typed \in BOOLEAN : StartSave(p, typed) \/ StartTest(p, typed)
    \/ StartDisconnect
    \/ \E c \in Calls : Handler(c)
    \/ \E a \in Acts : Replies(a)
    \/ EditReply
    \/ Restart

ConnSpec == ConnInit /\ [][ConnNext]_vars

\* The driver waits for a server that took the connection and says no more: a
\* client of the pool, the TLS and startup handshakes and the metadata queries
\* have no time limit.
AwaitsSilent(c) == call[c].at = "driver" /\ call[c].p \in Silent

\* SQLite, the keychain and the servers that are not silent answer, and answers
\* are delivered.  What the user does, and Restart, are never forced.
FairConnSpec ==
    /\ ConnSpec
    /\ \A c \in Calls : WF_vars(~AwaitsSilent(c) /\ Handler(c))
    /\ \A a \in Acts : WF_vars(Replies(a))
    /\ WF_vars(EditReply)

---------------------------------------------------------------------------
CallRecords == [op : Ops, at : Stages, p : Profiles \cup {NoProfile},
                ref : BOOLEAN, typed : BOOLEAN, open : BOOLEAN, ended : BOOLEAN]

ConnTypeOK ==
    /\ row \in [Profiles -> Rows]
    /\ keychain \subseteq Profiles /\ torn \subseteq Profiles
    /\ {selected, session, shown} \subseteq Profiles \cup {NoProfile}
    /\ call \in [Calls -> CallRecords]
    /\ latest \in Acts \cup {NoProfile}
    /\ \A c \in Calls : call[c].at = "idle" => call[c] = Idle
    /\ \A a \in Acts : call[a].op \in {"none", "connect"}

\* While no save or delete of it runs, a profile's row names a password
\* exactly when the keychain has one, unless a save or a delete of it failed
\* or was cut off between the two stores.
SecretsFollowRows ==
    \A p \in Profiles \ torn :
        ~(call[Edit].p = p /\ call[Edit].op \in {"save", "delete"}) =>
            (row[p] = "secret" <=> p \in keychain)

\* A session is only ever closed by a disconnect, by a delete that saw its
\* profile active, or by a connect whose new pool is open: a connect the
\* server refused leaves the running session alone.  The plan has it the other
\* way round ("Connecting to a different profile must disconnect the current
\* one first", docs/MVP/PHASE2_PLAN.md:39); this is what the code does.
RefusedConnectKeepsSession ==
    [][session # NoProfile /\ session' = NoProfile =>
        \/ call' = [c \in Calls |-> Idle]
        \/ \E c \in Calls : /\ call[c].at = "take"
                            /\ call[c].op = "connect" => call[c].open]_vars

\* The workspace stops showing "connecting" for an activation that no later
\* one replaced, whatever fails on the way, or the activation waits for a
\* server that never answers.
ActivationEnds ==
    \A a \in Acts : latest = a ~> latest # a \/ AwaitsSilent(a)

\* A deleted profile has no open session (docs/MVP/PHASE2_PLAN.md).
DeletedProfileIsClosed == \A p \in Profiles : row[p] = "gone" => session # p
=============================================================================
