------------------------ MODULE Connections_proofs ------------------------
(***************************************************************************)
(* Proofs about Connections, for any profiles and activations: what rows   *)
(* and keychain say of passwords, and what closes a session.               *)
(***************************************************************************)
EXTENDS Connections, TLAPS

Naming == {"read", "driver", "persist", "publish", "check", "keychain", "row", "select"}

(* A handler that works on a profile has one; only the one gated call saves *)
(* and deletes.                                                            *)
CallOK(c, r) ==
    /\ r \in CallRecords
    /\ r.at = "idle" => r = Idle
    /\ c \in Acts => r.op \in {"none", "connect"}
    /\ r.at = "read" => r.op \in {"connect", "test", "delete", "save"}
    /\ r.at \in Naming \/ (r.at = "take" /\ r.op # "disconnect") => r.p \in Profiles
    /\ r.at = "take" /\ r.op = "connect" => r.open

CallsOK ==
    /\ call \in [Calls -> CallRecords]
    /\ \A c \in Calls : CallOK(c, call[c])

---------------------------------------------------------------------------
LEMMA Put ==
    ASSUME CallsOK, NEW c \in Calls, NEW r, CallOK(c, r), call' = [call EXCEPT ![c] = r]
    PROVE  CallsOK'
<1>1. r \in CallRecords
  BY DEF CallOK
<1>2. call' \in [Calls -> CallRecords]
  BY <1>1 DEF CallsOK
<1>3. ASSUME NEW d \in Calls PROVE CallOK(d, call'[d])
  BY DEF CallsOK
<1> QED
  BY <1>2, <1>3 DEF CallsOK

LEMMA Handled ==
    ASSUME NEW c \in Calls, NEW op \in Ops \ {"none"}, NEW p \in Profiles \cup {NoProfile},
           NEW at \in Stages \ {"idle"}, NEW typed \in BOOLEAN,
           c \in Acts => op = "connect",
           at = "read" => op \in {"connect", "test", "delete", "save"},
           at \in Naming => p \in Profiles, at = "take" => op = "disconnect"
    PROVE  CallOK(c, Handling(op, p, at, typed))
BY DEF Handling, CallOK, CallRecords

LEMMA Moved ==
    ASSUME NEW c \in Calls, NEW r, CallOK(c, r), NEW at \in Stages \ {"idle", "read"},
           at \in Naming \cup {"take"} => r.p \in Profiles, at = "take" => r.op # "connect",
           NEW m, m = [r EXCEPT !.at = at]
    PROVE  /\ CallOK(c, m)
           /\ m.at = at /\ m.op = r.op /\ m.p = r.p
           /\ m.ref = r.ref /\ m.typed = r.typed /\ m.ended = r.ended
<1>1. r \in CallRecords
  BY DEF CallOK
<1>2. m.at = at /\ m.op = r.op /\ m.p = r.p
  BY <1>1 DEF CallRecords
<1>3. m.ref = r.ref
  BY <1>1 DEF CallRecords
<1>4. m.typed = r.typed /\ m.ended = r.ended
  BY <1>1 DEF CallRecords
<1>5. m \in CallRecords
  BY <1>1 DEF CallRecords
<1>6. CallOK(c, m)
  BY <1>2, <1>5 DEF CallOK
<1> QED
  BY <1>2, <1>3, <1>4, <1>6

LEMMA Going ==
    ASSUME CallsOK, NEW c \in Calls, NEW at \in Stages \ {"idle", "read"},
           at \in Naming \cup {"take"} => call[c].p \in Profiles,
           at = "take" => call[c].op # "connect", GoTo(c, at)
    PROVE  /\ CallsOK'
           /\ call'[c].at = at /\ call'[c].op = call[c].op /\ call'[c].p = call[c].p
           /\ call'[c].ref = call[c].ref /\ call'[c].typed = call[c].typed
           /\ \A d \in Calls \ {c} : call'[d] = call[d]
<1>1. PICK m : /\ call' = [call EXCEPT ![c] = m] /\ CallOK(c, m)
               /\ m.at = at /\ m.op = call[c].op /\ m.p = call[c].p
               /\ m.ref = call[c].ref /\ m.typed = call[c].typed
  <2>1. call' = [call EXCEPT ![c] = [call[c] EXCEPT !.at = at]]
    BY DEF GoTo, CallsOK
  <2>2. CallOK(c, call[c])
    BY DEF CallsOK
  <2>3. PICK m : m = [call[c] EXCEPT !.at = at]
    OBVIOUS
  <2>4. /\ CallOK(c, m)
        /\ m.at = at /\ m.op = call[c].op /\ m.p = call[c].p
        /\ m.ref = call[c].ref /\ m.typed = call[c].typed
    BY <2>2, <2>3, Moved
  <2> QED
    BY <2>1, <2>3, <2>4
<1>2. CallsOK'
  BY <1>1, Put
<1> QED
  BY <1>1, <1>2 DEF CallsOK

LEMMA Starting ==
    ASSUME CallsOK, NEW c \in Calls, NEW op \in Ops \ {"none"},
           NEW p \in Profiles \cup {NoProfile},
           NEW at \in Stages \ {"idle"}, NEW typed \in BOOLEAN,
           c \in Acts => op = "connect",
           at = "read" => op \in {"connect", "test", "delete", "save"},
           at \in Naming => p \in Profiles, at = "take" => op = "disconnect",
           call' = [call EXCEPT ![c] = Handling(op, p, at, typed)]
    PROVE  /\ CallsOK'
           /\ call'[c].at = at /\ call'[c].op = op /\ call'[c].p = p
           /\ call'[c].ref = FALSE /\ call'[c].typed = typed
           /\ \A d \in Calls \ {c} : call'[d] = call[d]
<1>1. CallOK(c, Handling(op, p, at, typed))
  BY Handled
<1>2. CallsOK'
  BY <1>1, Put
<1>3. call'[c] = Handling(op, p, at, typed) /\ \A d \in Calls \ {c} : call'[d] = call[d]
  BY DEF CallsOK
<1> QED
  BY <1>2, <1>3 DEF Handling

LEMMA Ending ==
    ASSUME CallsOK, NEW c \in Calls, End(c)
    PROVE  CallsOK' /\ call'[c] = Idle /\ \A d \in Calls \ {c} : call'[d] = call[d]
<1>1. CallOK(c, Idle)
  BY DEF Idle, Handling, CallOK, CallRecords, Ops, Stages, Naming
<1>2. CallsOK'
  BY <1>1, Put DEF End
<1> QED
  BY <1>2 DEF End, CallsOK

(* A call that fails or answers keeps its operation and gives up its       *)
(* profile.                                                                *)
LEMMA Failing ==
    ASSUME CallsOK, NEW c \in Calls, call[c].op # "none", Fail(c) \/ Answer(c)
    PROVE  /\ CallsOK'
           /\ call'[c].at \in {"end", "failed", "reply"}
           /\ call'[c].op = call[c].op /\ call'[c].p = NoProfile
           /\ \A d \in Calls \ {c} : call'[d] = call[d]
<1>1. CallOK(c, call[c]) /\ call[c].op \in Ops \ {"none"} /\ (c \in Acts => call[c].op = "connect")
  BY DEF CallsOK, CallOK, CallRecords
<1>2. PICK at \in {"end", "failed", "reply"} : Start(c, call[c].op, NoProfile, at)
  BY DEF Fail, Answer
<1>3. call' = [call EXCEPT ![c] = Handling(call[c].op, NoProfile, at, FALSE)]
  BY <1>2 DEF Start
<1>4. at \in Stages \ {"idle"} /\ at \notin Naming
  BY DEF Stages, Naming
<1> QED
  BY <1>1, <1>3, <1>4, Starting DEF Naming

LEMMA Taking ==
    ASSUME CallsOK, NEW c \in Calls, TakeSession(c), session \in Profiles \cup {NoProfile}
    PROVE  /\ CallsOK'
           /\ call'[c].op = call[c].op
           /\ call'[c].op = "delete" => /\ call'[c].at = "keychain" /\ call'[c].p = call[c].p
                                        /\ call'[c].ref = call[c].ref
           /\ call'[c].op = "connect" => call'[c].at = "persist"
           /\ call'[c].op \notin {"connect", "delete"} => call'[c].at = "reply"
           /\ \A d \in Calls \ {c} : call'[d] = call[d]
<1>1. CallOK(c, call[c]) /\ call[c].at = "take"
  BY DEF CallsOK, TakeSession
<1>2. CASE call[c].op = "delete"
  <2>1. PICK r : /\ r = [call[c] EXCEPT !.at = "keychain", !.ended = session # NoProfile]
                 /\ call' = [call EXCEPT ![c] = r]
    BY <1>2 DEF TakeSession, CallsOK
  <2>2. call[c] \in CallRecords /\ call[c].p \in Profiles
    BY <1>1, <1>2 DEF CallOK
  <2>3. r.at = "keychain" /\ r.op = call[c].op /\ r.p = call[c].p
    BY <2>1, <2>2 DEF CallRecords
  <2>4. r.ref = call[c].ref
    BY <2>1, <2>2 DEF CallRecords
  <2>5. r \in CallRecords
    BY <2>1, <2>2 DEF CallRecords, Stages
  <2>6. CallOK(c, r)
    BY <1>1, <2>2, <2>3, <2>5 DEF CallOK
  <2>7. CallsOK'
    BY <2>1, <2>6, Put
  <2> QED
    BY <1>2, <2>1, <2>3, <2>4, <2>7 DEF CallsOK
<1>3. CASE call[c].op = "connect"
  <2>1. call[c] \in CallRecords /\ call[c].p \in Profiles
    BY <1>1, <1>3 DEF CallOK
  <2>2. PICK r : /\ r = [call[c] EXCEPT !.at = "persist"]
                 /\ call' = [call EXCEPT ![c] = r]
    BY <1>3 DEF TakeSession, CallsOK
  <2>3. CallOK(c, r) /\ r.at = "persist" /\ r.op = call[c].op
    BY <1>1, <2>1, <2>2, Moved DEF Stages
  <2>4. CallsOK'
    BY <2>2, <2>3, Put
  <2> QED
    BY <1>3, <2>2, <2>3, <2>4 DEF CallsOK
<1>4. CASE call[c].op \notin {"connect", "delete"}
  <2>1. PICK r : /\ r = [call[c] EXCEPT !.at = "reply", !.p = session]
                 /\ call' = [call EXCEPT ![c] = r]
    BY <1>4 DEF TakeSession, CallsOK
  <2>2. call[c] \in CallRecords
    BY <1>1 DEF CallOK
  <2>3. r.at = "reply" /\ r.op = call[c].op
    BY <2>1, <2>2 DEF CallRecords
  <2>4. r \in CallRecords
    BY <2>1, <2>2 DEF CallRecords, Stages
  <2>5. CallOK(c, r)
    BY <1>1, <2>3, <2>4 DEF CallOK, Naming
  <2>6. CallsOK'
    BY <2>1, <2>5, Put
  <2> QED
    BY <1>4, <2>1, <2>3, <2>6 DEF CallsOK
<1> QED
  BY <1>2, <1>3, <1>4

LEMMA Reading ==
    ASSUME CallsOK, NEW c \in Calls, ReadRow(c)
    PROVE  /\ CallsOK'
           /\ call'[c].op = call[c].op /\ call'[c].at # "read" /\ call'[c].at # "row"
           /\ \/ call'[c].p = NoProfile
              \/ /\ call'[c].p = call[c].p
                 /\ call'[c].ref <=> call[c].op \in {"save", "delete"} /\ NamesSecret(call[c].p)
           /\ \A d \in Calls \ {c} : call'[d] = call[d]
<1>1. /\ CallOK(c, call[c]) /\ call[c].at = "read" /\ call[c] \in CallRecords
      /\ call[c].p \in Profiles
      /\ call[c].op \in {"connect", "test", "delete", "save"}
  BY DEF CallsOK, ReadRow, CallOK, Naming
<1>2. CASE Fail(c)
  BY <1>1, <1>2, Failing
<1>3. CASE ~Fail(c)
  <2> DEFINE named == call[c].op \in {"save", "delete"} /\ NamesSecret(call[c].p)
             next == AfterRead(call[c].op)
  <2>1. PICK r : /\ r = [call[c] EXCEPT !.at = next, !.ref = named]
                 /\ call' = [call EXCEPT ![c] = r]
    BY <1>3 DEF ReadRow, CallsOK
  <2>2. next \in {"driver", "check", "keychain"} /\ next \in Stages
    BY <1>1 DEF AfterRead, Stages
  <2>3. named \in BOOLEAN
    OBVIOUS
  <2> HIDE DEF next, named
  <2>4. r.at = next /\ r.op = call[c].op /\ r.p = call[c].p
    BY <1>1, <2>1 DEF CallRecords
  <2>5. r.ref = named
    BY <1>1, <2>1, <2>3 DEF CallRecords
  <2>6. r \in CallRecords
    BY <1>1, <2>1, <2>2, <2>3 DEF CallRecords
  <2>7. CallOK(c, r)
    BY <1>1, <2>2, <2>4, <2>6 DEF CallOK
  <2>8. CallsOK'
    BY <2>1, <2>7, Put
  <2> QED
    BY <2>1, <2>2, <2>4, <2>5, <2>8 DEF CallsOK, named
<1> QED
  BY <1>2, <1>3

(* A connect goes on to close the old session with its own pool open. *)
LEMMA Opening ==
    ASSUME CallsOK, NEW c \in Calls, At(c, "connect", "driver"),
           call' = [call EXCEPT ![c].at = "take", ![c].open = TRUE]
    PROVE  /\ CallsOK'
           /\ call'[c].op = "connect" /\ call'[c].at = "take"
           /\ \A d \in Calls \ {c} : call'[d] = call[d]
<1>1. CallOK(c, call[c]) /\ call[c] \in CallRecords /\ call[c].p \in Profiles
  BY DEF CallsOK, CallOK, At, Naming
<1>2. PICK r : r = [call[c] EXCEPT !.at = "take", !.open = TRUE] /\ call' = [call EXCEPT ![c] = r]
  BY DEF CallsOK
<1>3. r.at = "take" /\ r.op = "connect" /\ r.p = call[c].p
  BY <1>1, <1>2 DEF At, CallRecords
<1>4. r.open
  BY <1>1, <1>2 DEF CallRecords
<1>5. r \in CallRecords
  BY <1>1, <1>2 DEF CallRecords, Stages
<1>6. CallOK(c, r)
  BY <1>1, <1>3, <1>4, <1>5 DEF CallOK
<1>7. CallsOK'
  BY <1>2, <1>6, Put
<1> QED
  BY <1>2, <1>3, <1>7 DEF CallsOK

---------------------------------------------------------------------------
TablesOK ==
    /\ row \in [Profiles -> Rows]
    /\ keychain \subseteq Profiles /\ torn \subseteq Profiles
    /\ selected \in Profiles \cup {NoProfile}
    /\ session \in Profiles \cup {NoProfile} /\ shown \in Profiles \cup {NoProfile}
    /\ latest \in Acts \cup {NoProfile}

LEMMA TypeParts == CallsOK /\ TablesOK => ConnTypeOK
BY DEF CallsOK, TablesOK, ConnTypeOK, CallOK, Calls

(* What a handler may assume of the call it serves. *)
LEMMA CallFacts ==
    ASSUME CallsOK, NEW c \in Calls
    PROVE  /\ call[c] \in CallRecords
           /\ call[c].op \in Ops /\ call[c].p \in Profiles \cup {NoProfile}
           /\ c \in Acts => call[c].op \in {"none", "connect"}
           /\ call[c].at \in Naming => call[c].p \in Profiles
           /\ call[c].at # "idle" => call[c] # Idle
           /\ call[c].at = "idle" => call[c] = Idle
BY DEF CallsOK, CallOK, CallRecords, Idle, Handling

(* Whatever runs or fails, calls and tables keep their shape, and a handler *)
(* that works on a profile has one.                                        *)
THEOREM TypeCorrect == ConnSpec => [](CallsOK /\ TablesOK)
<1>1. ConnInit => CallsOK /\ TablesOK
  <2> SUFFICES ASSUME ConnInit PROVE CallsOK /\ TablesOK
    OBVIOUS
  <2>1. \A c \in Calls : CallOK(c, Idle)
    BY DEF Idle, Handling, CallOK, CallRecords, Ops, Stages, Naming
  <2>2. CallsOK
    BY <2>1 DEF ConnInit, CallsOK, CallOK
  <2>3. TablesOK
    BY DEF ConnInit, TablesOK, Rows
  <2> QED
    BY <2>2, <2>3
<1>2. CallsOK /\ TablesOK /\ [ConnNext]_vars => CallsOK' /\ TablesOK'
  <2> SUFFICES ASSUME CallsOK, TablesOK, [ConnNext]_vars
               PROVE  CallsOK' /\ TablesOK'
    OBVIOUS
  <2> USE DEF TablesOK, durable, ui
  <2>0. /\ Edit \in Calls /\ Edit \notin Acts /\ Acts \subseteq Calls
        /\ Edited \subseteq Profiles /\ NoProfile \notin Profiles
    BY ConnAssumption DEF Calls
  <2>1. ASSUME NEW a \in Acts, NEW p \in Profiles, Activate(a, p) PROVE CallsOK' /\ TablesOK'
    <3>1. TablesOK'
      BY <2>1 DEF Activate
    <3>2. PICK at \in {"end", "read"} : Start(a, "connect", p, at)
      BY <2>1 DEF Activate
    <3>3. CallsOK'
      BY <2>0, <3>2, Starting DEF Start, Ops, Stages, Naming
    <3> QED
      BY <3>1, <3>3
  <2>2. ASSUME NEW p \in Profiles, SelectProfile(p) PROVE CallsOK' /\ TablesOK'
    BY <2>2 DEF SelectProfile, SaveSelected, CallsOK
  <2>3. ASSUME NEW p \in Profiles, NEW typed \in BOOLEAN, StartSave(p, typed)
        PROVE  CallsOK' /\ TablesOK'
    <3>1. PICK at \in {"keychain", "read"} :
             call' = [call EXCEPT ![Edit] = Handling("save", p, at, typed)]
      BY <2>3 DEF StartSave
    <3>2. CallsOK'
      BY <2>0, <3>1, Starting DEF Ops, Stages, Naming
    <3> QED
      BY <2>3, <3>2 DEF StartSave
  <2>4. ASSUME NEW p \in Profiles, NEW typed \in BOOLEAN, StartTest(p, typed)
        PROVE  CallsOK' /\ TablesOK'
    <3>1. PICK at \in {"driver", "read"} : Start(Edit, "test", p, at)
      BY <2>4 DEF StartTest
    <3>2. CallsOK'
      BY <2>0, <3>1, Starting DEF Start, Ops, Stages, Naming
    <3> QED
      BY <2>4, <3>2 DEF StartTest
  <2>5. ASSUME NEW p \in Profiles, StartDelete(p) PROVE CallsOK' /\ TablesOK'
    <3>1. PICK at \in {"read"} : Start(Edit, "delete", p, at)
      BY <2>5 DEF StartDelete
    <3>2. CallsOK'
      BY <2>0, <3>1, Starting DEF Start, Ops, Stages, Naming
    <3> QED
      BY <2>5, <3>2 DEF StartDelete
  <2>6. CASE StartDisconnect
    <3>1. CallsOK'
      BY <2>0, <2>6, Starting DEF StartDisconnect, Start, Ops, Stages, Naming
    <3> QED
      BY <2>6, <3>1 DEF StartDisconnect
  <2>7. ASSUME NEW c \in Calls, Handler(c) PROVE CallsOK' /\ TablesOK'
    <3>1. CASE ReadRow(c)
      BY <3>1, Reading DEF ReadRow
    <3>2. CASE DriveTest(c)
      BY <3>2, Failing DEF DriveTest, At
    <3>3. CASE DriveConnect(c)
      <4>1. CASE call' = [call EXCEPT ![c].at = "take", ![c].open = TRUE]
        BY <3>3, <4>1, Opening DEF DriveConnect
      <4>2. CASE Fail(c)
        BY <3>3, <4>2, Failing DEF DriveConnect, At
      <4> QED
        BY <3>3, <4>1, <4>2 DEF DriveConnect
    <3>4. CASE TakeSession(c)
      BY <3>4, Taking DEF TakeSession
    <3>5. CASE PersistConnect(c)
      <4>1. CASE GoTo(c, "publish")
        BY <3>5, <4>1, Going, CallFacts DEF PersistConnect, At, Stages, Naming, SaveSelected
      <4>2. CASE Fail(c)
        BY <3>5, <4>2, Failing, CallFacts DEF PersistConnect, At, SaveSelected
      <4> QED
        BY <3>5, <4>1, <4>2 DEF PersistConnect
    <3>6. CASE PublishSession(c)
      BY <3>6, Going, CallFacts DEF PublishSession, At, Stages, Naming
    <3>7. CASE CheckActive(c)
      <4>1. PICK at \in {"take", "keychain"} : GoTo(c, at)
        BY <3>7 DEF CheckActive
      <4> QED
        BY <3>7, <4>1, Going, CallFacts DEF CheckActive, At, Stages, Naming
    <3>8. CASE DeletePassword(c)
      <4>1. CASE GoTo(c, "row")
        BY <3>8, <4>1, Going, CallFacts DEF DeletePassword, At, Stages, Naming, ErasePassword
      <4>2. CASE Fail(c)
        BY <3>8, <4>2, Failing DEF DeletePassword, At, ErasePassword
      <4> QED
        BY <3>8, <4>1, <4>2 DEF DeletePassword
    <3>9. CASE DeleteRow(c)
      <4>1. HalfWay \subseteq Profiles
        BY <2>0, CallFacts DEF HalfWay, At, Naming
      <4>2. TablesOK'
        BY <3>9, <4>1, CallFacts DEF DeleteRow, At, Naming, RemoveRow, ClearSelected, Rows
      <4>3. CASE GoTo(c, "reply")
        BY <4>2, <4>3, Going DEF Stages, Naming
      <4>4. CASE Fail(c)
        BY <3>9, <4>2, <4>4, Failing DEF DeleteRow, At
      <4> QED
        BY <3>9, <4>3, <4>4 DEF DeleteRow
    <3>10. CASE SavePassword(c)
      <4>1. CASE GoTo(c, "row")
        BY <3>10, <4>1, Going, CallFacts DEF SavePassword, At, Stages, Naming, StorePassword
      <4>2. CASE Fail(c)
        BY <3>10, <4>2, Failing, CallFacts DEF SavePassword, At, StorePassword, Naming
      <4> QED
        BY <3>10, <4>1, <4>2 DEF SavePassword
    <3>11. CASE SaveRow(c)
      <4>1. HalfWay \subseteq Profiles
        BY <2>0, CallFacts DEF HalfWay, At, Naming
      <4>2. TablesOK'
        BY <3>11, <4>1, CallFacts DEF SaveRow, At, Naming, UpsertRow, Rows
      <4>3. call[c].p \in Profiles /\ call[c].op = "save" /\ c \notin Acts
        BY <3>11, CallFacts DEF SaveRow, At, Naming
      <4>4. CASE Start(c, "save", call[c].p, "select")
        <5>1. PICK p \in Profiles : p = call[c].p
          BY <4>3
        <5>2. call' = [call EXCEPT ![c] = Handling("save", p, "select", FALSE)]
          BY <4>4, <5>1 DEF Start
        <5>3. "save" \in Ops \ {"none"} /\ "select" \in Stages \ {"idle"}
          BY DEF Ops, Stages
        <5>4. CallOK(c, Handling("save", p, "select", FALSE))
          BY <4>3, <5>3, Handled
        <5>5. CallsOK'
          BY <5>2, <5>4, Put
        <5> QED
          BY <4>2, <5>5
      <4>5. CASE Fail(c)
        BY <4>2, <4>3, <4>5, Failing
      <4> QED
        BY <3>11, <4>4, <4>5 DEF SaveRow
    <3>12. CASE SaveSelection(c)
      BY <3>12, Failing, CallFacts DEF SaveSelection, At, SaveSelected, Naming
    <3> QED
      BY <2>7, <3>1, <3>2, <3>3, <3>4, <3>5, <3>6, <3>7, <3>8, <3>9, <3>10, <3>11, <3>12 DEF Handler
  <2>8. ASSUME NEW a \in Acts, ConnectReply(a) PROVE CallsOK' /\ TablesOK'
    <3>1. TablesOK'
      BY <2>0, <2>8, CallFacts DEF ConnectReply
    <3>2. CASE End(a)
      BY <2>0, <3>1, <3>2, Ending
    <3>3. CASE Start(a, "connect", NoProfile, "end")
      <4>1. call' = [call EXCEPT ![a] = Handling("connect", NoProfile, "end", FALSE)]
        BY <3>3 DEF Start
      <4>2. "connect" \in Ops \ {"none"} /\ "end" \in Stages \ {"idle"} /\ "end" \notin Naming
        BY DEF Ops, Stages, Naming
      <4>3. CallsOK'
        BY <2>0, <4>1, <4>2, Starting
      <4> QED
        BY <3>1, <4>3
    <3> QED
      BY <2>8, <3>2, <3>3 DEF ConnectReply
  <2>9. ASSUME NEW a \in Acts, EndActivation(a) PROVE CallsOK' /\ TablesOK'
    BY <2>0, <2>9, Ending DEF EndActivation
  <2>10. CASE EditReply
    <3>1. CallsOK'
      BY <2>0, <2>10, Ending DEF EditReply
    <3> QED
      BY <2>10, <3>1 DEF EditReply
  <2>11. CASE Restart
    <3>1. HalfWay \subseteq Profiles
      BY <2>0, CallFacts DEF HalfWay, At, Naming
    <3>2. \A c \in Calls : CallOK(c, Idle)
      BY DEF Idle, Handling, CallOK, CallRecords, Ops, Stages, Naming
    <3>3. CallsOK'
      BY <2>11, <3>2 DEF Restart, CallsOK, CallOK
    <3> QED
      BY <2>11, <3>1, <3>3 DEF Restart
  <2>12. CASE UNCHANGED vars
    BY <2>12 DEF vars, CallsOK
  <2> QED
    BY <2>0, <2>1, <2>2, <2>3, <2>4, <2>5, <2>6, <2>7, <2>8, <2>9, <2>10, <2>11, <2>12
       DEF ConnNext, Replies
<1> QED
  BY <1>1, <1>2, PTL DEF ConnSpec

(* Types are kept by whatever calls run, fail or are cut off. *)
THEOREM Typed == ConnSpec => []ConnTypeOK
BY TypeCorrect, TypeParts, PTL

---------------------------------------------------------------------------
(* A connect that the server refuses costs no session: only an open pool,  *)
(* a disconnect, a delete that saw its profile active or the end of the    *)
(* process closes one.                                                     *)
THEOREM RefusalKeepsSession == ConnSpec => RefusedConnectKeepsSession
<1>1. CallsOK /\ TablesOK /\ [ConnNext]_vars =>
        [session # NoProfile /\ session' = NoProfile =>
            \/ call' = [c \in Calls |-> Idle]
            \/ \E c \in Calls : /\ call[c].at = "take"
                                /\ call[c].op = "connect" => call[c].open]_vars
  <2> SUFFICES ASSUME CallsOK, TablesOK, ConnNext, session # NoProfile, session' = NoProfile
               PROVE  \/ call' = [c \in Calls |-> Idle]
                      \/ \E c \in Calls : /\ call[c].at = "take"
                                          /\ call[c].op = "connect" => call[c].open
    BY DEF vars
  <2> USE DEF durable, ui
  <2>1. ~\E a \in Acts, p \in Profiles : Activate(a, p)
    BY DEF Activate
  <2>2. ~\E p \in Profiles : SelectProfile(p)
    BY DEF SelectProfile
  <2>3. ~\E p \in Edited : StartDelete(p)
    BY DEF StartDelete
  <2>4. ~\E p \in Edited, typed \in BOOLEAN : StartSave(p, typed) \/ StartTest(p, typed)
    BY DEF StartSave, StartTest
  <2>5. ~(StartDisconnect \/ EditReply)
    BY DEF StartDisconnect, EditReply
  <2>6. ~\E a \in Acts : Replies(a)
    BY DEF Replies, ConnectReply, EndActivation
  <2>7. CASE Restart
    BY <2>7 DEF Restart
  <2>8. ASSUME NEW c \in Calls, Handler(c)
        PROVE  call[c].at = "take" /\ (call[c].op = "connect" => call[c].open)
    <3>1. ~(ReadRow(c) \/ DriveTest(c) \/ DriveConnect(c) \/ PersistConnect(c) \/ CheckActive(c))
      BY DEF ReadRow, DriveTest, DriveConnect, PersistConnect, CheckActive
    <3>2. ~(DeletePassword(c) \/ DeleteRow(c) \/ SavePassword(c) \/ SaveRow(c) \/ SaveSelection(c))
      BY DEF DeletePassword, DeleteRow, SavePassword, SaveRow, SaveSelection
    <3>3. ~PublishSession(c)
      BY CallFacts, ConnAssumption DEF PublishSession, At, Naming
    <3>4. TakeSession(c)
      BY <2>8, <3>1, <3>2, <3>3 DEF Handler
    <3> QED
      BY <3>4 DEF TakeSession, CallsOK, CallOK
  <2> QED
    BY <2>1, <2>2, <2>3, <2>4, <2>5, <2>6, <2>7, <2>8 DEF ConnNext
<1> QED
  BY <1>1, TypeCorrect, PTL DEF ConnSpec, RefusedConnectKeepsSession

---------------------------------------------------------------------------
Agrees(p) == row[p] = "secret" <=> p \in keychain
Editing(p) == call[Edit].p = p /\ call[Edit].op \in {"save", "delete"}
HasRead(p) == Editing(p) /\ call[Edit].at \in {"check", "take", "keychain", "row"}
Saving(p) == call[Edit].p = p /\ At(Edit, "save", "row") /\ call[Edit].typed
Deleting(p) == call[Edit].p = p /\ At(Edit, "delete", "row") /\ call[Edit].ref

(* Between the two stores a save has its password and a delete has none;   *)
(* what either has read of the row still holds; otherwise the two agree.   *)
SecretInv ==
    \A p \in Profiles \ torn :
        /\ HasRead(p) => (call[Edit].ref <=> row[p] = "secret")
        /\ Saving(p) => p \in keychain
        /\ Deleting(p) => p \notin keychain
        /\ ~Saving(p) /\ ~Deleting(p) => Agrees(p)

(* Steps that leave both stores and the gated call alone keep what is said *)
(* of them.                                                                *)
LEMMA SecretSame ==
    ASSUME SecretInv, UNCHANGED <<row, keychain>>, torn \subseteq torn', call'[Edit] = call[Edit]
    PROVE  SecretInv'
BY DEF SecretInv, HasRead, Editing, Saving, Deleting, Agrees, At

(* So do steps of the gated call outside the two stores. *)
LEMMA SecretMoved ==
    ASSUME SecretInv, UNCHANGED <<row, keychain, torn>>,
           ~At(Edit, "save", "row"), ~At(Edit, "delete", "row"),
           call'[Edit].at # "row",
           \A p \in Profiles : HasRead(p)' => (call'[Edit].ref <=> row[p] = "secret")
    PROVE  SecretInv'
BY DEF SecretInv, Saving, Deleting, Agrees, At

(* And those that keep what the gated call has read. *)
LEMMA SecretLate ==
    ASSUME SecretInv, UNCHANGED <<row, keychain, torn>>,
           call[Edit].at # "row", call'[Edit].at # "row",
           \A q \in Profiles : HasRead(q)' => HasRead(q) /\ call'[Edit].ref = call[Edit].ref
    PROVE  SecretInv'
BY DEF SecretInv, Saving, Deleting, Agrees, At

(* A call that is stopped has its profile in torn when it had come half    *)
(* way.                                                                    *)
LEMMA SecretTorn ==
    ASSUME SecretInv, UNCHANGED <<row, keychain>>, torn' = torn \cup HalfWay,
           call'[Edit].at \in {"idle", "end", "failed", "reply"}
    PROVE  SecretInv'
BY DEF SecretInv, HalfWay, HasRead, Editing, Saving, Deleting, Agrees, At

LEMMA SecretStep ==
    ASSUME CallsOK, TablesOK, SecretInv, [ConnNext]_vars
    PROVE  SecretInv'
<1> USE DEF durable, ui
<1>0. /\ Edit \in Calls /\ Edit \notin Acts /\ Acts \subseteq Calls
      /\ Edited \subseteq Profiles /\ NoProfile \notin Profiles
  BY ConnAssumption DEF Calls
<1>1. ASSUME NEW a \in Acts, NEW p \in Profiles, Activate(a, p) PROVE SecretInv'
  <2>1. call'[Edit] = call[Edit]
    BY <1>0, <1>1 DEF Activate, Start, CallsOK
  <2> QED
    BY <1>1, <2>1, SecretSame DEF Activate
<1>2. ASSUME NEW p \in Profiles, SelectProfile(p) PROVE SecretInv'
  BY <1>2, SecretSame DEF SelectProfile
<1>3. ASSUME NEW p \in Profiles, NEW op \in Ops, NEW at, NEW typed, call[Edit] = Idle,
             call'[Edit] = Handling(op, p, at, typed), at \notin {"check", "take", "row"},
             at = "keychain" => row[p] # "secret",
             UNCHANGED <<row, keychain, torn>>
      PROVE  SecretInv'
  <2>1. /\ call'[Edit].at = at /\ call'[Edit].p = p /\ ~call'[Edit].ref
        /\ call[Edit].at = "idle"
    BY <1>3 DEF Handling, Idle
  <2>2. \A q \in Profiles : HasRead(q)' => (call'[Edit].ref <=> row[q] = "secret")
    BY <1>3, <2>1 DEF HasRead, Editing
  <2> QED
    BY <1>3, <2>1, <2>2, SecretMoved DEF At
<1>4. ASSUME NEW p \in Edited, StartDelete(p) PROVE SecretInv'
  <2>1. PICK at \in {"read"} :
           call[Edit] = Idle /\ call'[Edit] = Handling("delete", p, at, FALSE)
    BY <1>0, <1>4 DEF StartDelete, Start, Busy, CallsOK
  <2>2. p \in Profiles /\ UNCHANGED <<row, keychain, torn>>
    BY <1>0, <1>4 DEF StartDelete
  <2> QED
    BY <1>3, <2>1, <2>2 DEF Ops
<1>5. ASSUME NEW p \in Edited, NEW typed \in BOOLEAN, StartSave(p, typed) PROVE SecretInv'
  <2>1. PICK at \in {"read", "keychain"} :
           /\ call[Edit] = Idle /\ call'[Edit] = Handling("save", p, at, typed)
           /\ at = "keychain" => ~Live(p)
    BY <1>0, <1>5 DEF StartSave, Busy, CallsOK
  <2> QED
    BY <1>0, <1>3, <1>5, <2>1 DEF StartSave, Ops, Live
<1>6. ASSUME NEW p \in Edited, NEW typed \in BOOLEAN, StartTest(p, typed) PROVE SecretInv'
  <2>1. PICK at \in {"read", "driver"} :
           call[Edit] = Idle /\ call'[Edit] = Handling("test", p, at, FALSE)
    BY <1>0, <1>6 DEF StartTest, Start, Busy, CallsOK
  <2> QED
    BY <1>0, <1>3, <1>6, <2>1 DEF StartTest, Ops
<1>7. CASE StartDisconnect
  <2>1. /\ call[Edit] = Idle /\ call'[Edit] = Handling("disconnect", NoProfile, "take", FALSE)
        /\ UNCHANGED <<row, keychain, torn>>
    BY <1>0, <1>7 DEF StartDisconnect, Start, Busy, CallsOK
  <2>2. call[Edit].at = "idle" /\ call'[Edit].at = "take" /\ call'[Edit].op = "disconnect"
    BY <2>1 DEF Idle, Handling
  <2> QED
    BY <2>1, <2>2, SecretMoved DEF At, HasRead, Editing
<1>8. ASSUME NEW a \in Acts, Handler(a) PROVE SecretInv'
  <2>1. a \in Calls /\ a # Edit /\ call[a].op \in {"none", "connect"}
    BY <1>0, CallFacts
  <2>2. ~(DeletePassword(a) \/ DeleteRow(a) \/ SavePassword(a) \/ SaveRow(a) \/ SaveSelection(a))
    BY <2>1 DEF DeletePassword, DeleteRow, SavePassword, SaveRow, SaveSelection, At
  <2>3. ~(DriveTest(a) \/ CheckActive(a))
    BY <2>1 DEF DriveTest, CheckActive, At
  <2>4. UNCHANGED <<row, keychain, torn>> /\ call'[Edit] = call[Edit]
    <3>1. CASE ReadRow(a)
      BY <1>0, <2>1, <3>1, Reading DEF ReadRow
    <3>2. CASE TakeSession(a)
      BY <1>0, <2>1, <3>2, Taking DEF TakeSession, TablesOK
    <3>3. CASE DriveConnect(a)
      BY <1>0, <2>1, <3>3 DEF DriveConnect, GoTo, Fail, Start, CallsOK
    <3>4. CASE PersistConnect(a)
      BY <1>0, <2>1, <3>4 DEF PersistConnect, GoTo, Fail, Start, CallsOK
    <3>5. CASE PublishSession(a)
      BY <1>0, <2>1, <3>5 DEF PublishSession, GoTo, CallsOK
    <3> QED
      BY <1>8, <2>2, <2>3, <3>1, <3>2, <3>3, <3>4, <3>5 DEF Handler
  <2> QED
    BY <2>4, SecretSame
<1>9. CASE Handler(Edit)
  <2> DEFINE e == call[Edit]
  <2>1. CASE ReadRow(Edit)
    <3>1. UNCHANGED <<row, keychain, torn>> /\ e.at = "read"
      BY <2>1 DEF ReadRow
    <3>2. /\ call'[Edit].at # "row" /\ call'[Edit].op = e.op
          /\ \/ call'[Edit].p = NoProfile
             \/ call'[Edit].ref <=> e.op \in {"save", "delete"} /\ row[call'[Edit].p] = "secret"
      BY <1>0, <2>1, Reading DEF NamesSecret
    <3>3. \A q \in Profiles : HasRead(q)' => (call'[Edit].ref <=> row[q] = "secret")
      BY <1>0, <3>2 DEF HasRead, Editing
    <3> QED
      BY <3>1, <3>2, <3>3, SecretMoved DEF At
  <2>2. CASE e.op \in {"test", "connect"} /\ ~ReadRow(Edit)
    <3>1. \/ DriveTest(Edit) \/ DriveConnect(Edit) \/ TakeSession(Edit)
          \/ PersistConnect(Edit) \/ PublishSession(Edit)
      BY <1>9, <2>2 DEF Handler, CheckActive, DeletePassword, DeleteRow, SavePassword,
         SaveRow, SaveSelection, At
    <3>2. UNCHANGED <<row, keychain, torn>>
      BY <3>1 DEF DriveTest, DriveConnect, TakeSession, PersistConnect, PublishSession
    <3>3. call'[Edit].op = e.op /\ call'[Edit].at # "row"
      <4>1. CASE TakeSession(Edit)
        BY <1>0, <2>2, <4>1, Taking DEF TablesOK
      <4>2. CASE Fail(Edit) \/ Answer(Edit)
        BY <1>0, <2>2, <4>2, Failing
      <4>3. CASE \E at \in {"publish", "reply"} : GoTo(Edit, at) /\ e.p \in Profiles
        BY <1>0, <4>3, Going DEF Stages
      <4>4. CASE ~TakeSession(Edit)
        <5>1. e.at \in Naming => e.p \in Profiles
          BY <1>0, CallFacts
        <5>2. CASE DriveConnect(Edit) /\ ~Fail(Edit)
          BY <1>0, <5>2, Opening DEF DriveConnect, At
        <5> QED
          BY <3>1, <4>2, <4>3, <4>4, <5>1, <5>2 DEF DriveTest, PersistConnect,
             PublishSession, At, Naming
      <4> QED
        BY <4>1, <4>4
    <3> QED
      BY <2>2, <3>2, <3>3, SecretMoved DEF At, HasRead, Editing
  <2>3. CASE TakeSession(Edit) /\ e.op # "connect"
    <3>1. UNCHANGED <<row, keychain, torn>> /\ e.at = "take"
      BY <2>3 DEF TakeSession
    <3>2. /\ call'[Edit].at # "row" /\ call'[Edit].op = e.op
          /\ call'[Edit].at # "reply" => /\ e.op = "delete" /\ call'[Edit].p = e.p
                                         /\ call'[Edit].ref = e.ref
      BY <1>0, <2>3, Taking DEF TablesOK
    <3>3. \A q \in Profiles : HasRead(q)' => HasRead(q) /\ call'[Edit].ref = e.ref
      BY <3>1, <3>2 DEF HasRead, Editing
    <3> QED
      BY <3>1, <3>2, <3>3, SecretLate
  <2>4. CASE CheckActive(Edit)
    <3>1. /\ UNCHANGED <<row, keychain, torn>> /\ e.at = "check" /\ e.op = "delete"
          /\ e.p \in Profiles
      BY <1>0, <2>4, CallFacts DEF CheckActive, At, Naming
    <3>2. PICK at \in {"take", "keychain"} : GoTo(Edit, at)
      BY <2>4 DEF CheckActive
    <3>3. call'[Edit].at = at /\ call'[Edit].op = e.op /\ call'[Edit].p = e.p
          /\ call'[Edit].ref = e.ref
      BY <1>0, <3>1, <3>2, Going DEF Stages
    <3>4. \A q \in Profiles : HasRead(q)' => HasRead(q) /\ call'[Edit].ref = e.ref
      BY <3>1, <3>3 DEF HasRead, Editing
    <3> QED
      BY <3>1, <3>3, <3>4, SecretLate
  <2>5. CASE SaveSelection(Edit)
    <3>1. /\ UNCHANGED <<row, keychain, torn>> /\ e.at = "select" /\ e.op = "save"
          /\ Fail(Edit) \/ Answer(Edit)
      BY <2>5 DEF SaveSelection, At
    <3>2. call'[Edit].at # "row" /\ call'[Edit].p = NoProfile
      BY <1>0, <3>1, Failing
    <3> QED
      BY <1>0, <3>1, <3>2, SecretMoved DEF At, HasRead, Editing
  <2>6. CASE DeletePassword(Edit)
    <3>1. /\ e.op = "delete" /\ e.at = "keychain" /\ e.p \in Profiles /\ UNCHANGED <<row, torn>>
      BY <1>0, <2>6, CallFacts DEF DeletePassword, At, Naming
    <3>2. CASE GoTo(Edit, "row")
      <4>1. /\ call'[Edit].at = "row" /\ call'[Edit].op = "delete" /\ call'[Edit].p = e.p
            /\ call'[Edit].ref = e.ref
        BY <1>0, <3>1, <3>2, Going DEF Stages
      <4>2. keychain' = IF e.ref THEN keychain \ {e.p} ELSE keychain
        BY <2>6, <3>1, <3>2, <4>1, Failing, <1>0 DEF DeletePassword, ErasePassword
      <4> QED
        BY <3>1, <4>1, <4>2 DEF SecretInv, HasRead, Editing, Saving, Deleting, Agrees, At
    <3>3. CASE Fail(Edit)
      <4>1. call'[Edit].at # "row" /\ call'[Edit].p = NoProfile
        BY <1>0, <3>1, <3>3, Failing
      <4>2. UNCHANGED keychain
        BY <2>6, <3>1, <4>1, <1>0, Going DEF DeletePassword, Stages
      <4> QED
        BY <1>0, <3>1, <4>1, <4>2, SecretMoved DEF At, HasRead, Editing
    <3> QED
      BY <2>6, <3>2, <3>3 DEF DeletePassword
  <2>7. CASE SavePassword(Edit)
    <3>1. /\ e.op = "save" /\ e.at = "keychain" /\ e.p \in Profiles /\ UNCHANGED <<row, torn>>
      BY <1>0, <2>7, CallFacts DEF SavePassword, At, Naming
    <3>2. CASE GoTo(Edit, "row")
      <4>1. /\ call'[Edit].at = "row" /\ call'[Edit].op = "save" /\ call'[Edit].p = e.p
            /\ call'[Edit].ref = e.ref /\ call'[Edit].typed = e.typed
        BY <1>0, <3>1, <3>2, Going DEF Stages
      <4>2. keychain' = IF e.typed THEN keychain \cup {e.p} ELSE keychain
        BY <2>7, <3>1, <3>2, <4>1, Failing, <1>0 DEF SavePassword, StorePassword
      <4> QED
        BY <3>1, <4>1, <4>2 DEF SecretInv, HasRead, Editing, Saving, Deleting, Agrees, At
    <3>3. CASE Fail(Edit)
      <4>1. call'[Edit].at # "row" /\ call'[Edit].p = NoProfile
        BY <1>0, <3>1, <3>3, Failing
      <4>2. UNCHANGED keychain
        BY <2>7, <3>1, <4>1, <1>0, Going DEF SavePassword, Stages
      <4> QED
        BY <1>0, <3>1, <4>1, <4>2, SecretMoved DEF At, HasRead, Editing
    <3> QED
      BY <2>7, <3>2, <3>3 DEF SavePassword
  <2>8. CASE DeleteRow(Edit)
    <3>1. /\ e.op = "delete" /\ e.at = "row" /\ e.p \in Profiles /\ UNCHANGED keychain
          /\ At(Edit, "delete", "row")
      BY <1>0, <2>8, CallFacts DEF DeleteRow, At, Naming
    <3>2. CASE RemoveRow(e.p) /\ UNCHANGED torn
      <4>1. call'[Edit].at # "row"
        BY <1>0, <2>8, <3>1, Going, Failing DEF DeleteRow, Stages, Naming
      <4>2. e.p \notin torn => e.p \notin keychain
        BY <3>1 DEF SecretInv, HasRead, Editing, Saving, Deleting, Agrees, At
      <4>3. row' = [row EXCEPT ![e.p] = "gone"] /\ row \in [Profiles -> Rows]
        BY <3>2 DEF RemoveRow, TablesOK
      <4>4. \A q \in Profiles : ~HasRead(q)'
        BY <1>0, <2>8, <3>1, Going, Failing DEF DeleteRow, Stages, Naming, HasRead, Editing
      <4>5. \A q \in Profiles \ torn : q # e.p => Agrees(q)
        BY DEF SecretInv, Saving, Deleting
      <4> QED
        BY <3>1, <3>2, <4>1, <4>2, <4>3, <4>4, <4>5 DEF SecretInv, Saving, Deleting, Agrees, At
    <3>3. CASE Fail(Edit) /\ torn' = torn \cup HalfWay /\ UNCHANGED row
      BY <1>0, <3>1, <3>3, SecretTorn, Failing
    <3> QED
      BY <2>8, <3>2, <3>3 DEF DeleteRow
  <2>9. CASE SaveRow(Edit)
    <3>1. /\ e.op = "save" /\ e.at = "row" /\ e.p \in Profiles /\ UNCHANGED keychain
          /\ At(Edit, "save", "row")
      BY <1>0, <2>9, CallFacts DEF SaveRow, At, Naming
    <3>2. CASE /\ UpsertRow(e.p, KeepsSecret(Edit)) /\ UNCHANGED torn
               /\ Start(Edit, "save", e.p, "select")
      <4>1. call'[Edit].at = "select"
        <5>1. PICK at \in {"select"} : Start(Edit, "save", e.p, at)
          BY <3>2
        <5> QED
          BY <1>0, <3>1, <5>1, Starting DEF Start, Ops, Stages, Naming
      <4>2. e.p \notin torn => (e.typed \/ e.ref <=> e.p \in keychain)
        BY <3>1 DEF SecretInv, HasRead, Editing, Saving, Deleting, Agrees, At
      <4>3. /\ row \in [Profiles -> Rows]
            /\ row' = [row EXCEPT ![e.p] = IF e.typed \/ e.ref THEN "secret" ELSE "bare"]
        BY <3>2 DEF UpsertRow, KeepsSecret, TablesOK
      <4>4. \A q \in Profiles \ torn : q # e.p => Agrees(q)
        BY DEF SecretInv, Saving, Deleting
      <4> QED
        BY <3>1, <3>2, <4>1, <4>2, <4>3, <4>4
           DEF SecretInv, HasRead, Editing, Saving, Deleting, Agrees, At
    <3>3. CASE Fail(Edit) /\ torn' = torn \cup HalfWay /\ UNCHANGED row
      BY <1>0, <3>1, <3>3, SecretTorn, Failing
    <3> QED
      BY <2>9, <3>2, <3>3 DEF SaveRow
  <2>10. ~ReadRow(Edit) => e.op \in {"test", "connect"} \/ ~(DriveTest(Edit) \/ DriveConnect(Edit)
                              \/ PersistConnect(Edit) \/ PublishSession(Edit))
    BY DEF DriveTest, DriveConnect, PersistConnect, PublishSession, At
  <2> QED
    BY <1>9, <2>1, <2>2, <2>3, <2>4, <2>5, <2>6, <2>7, <2>8, <2>9, <2>10 DEF Handler
<1>10. ASSUME NEW a \in Acts, Replies(a) PROVE SecretInv'
  <2>1. UNCHANGED <<row, keychain, torn>> /\ call'[Edit] = call[Edit]
    BY <1>0, <1>10 DEF Replies, ConnectReply, EndActivation, End, Start, CallsOK
  <2> QED
    BY <2>1, SecretSame
<1>11. CASE EditReply
  <2>1. /\ UNCHANGED <<row, keychain, torn>> /\ call'[Edit] = Idle
        /\ call[Edit].at \in {"reply", "failed"}
    BY <1>0, <1>11, Ending DEF EditReply
  <2>2. call'[Edit].at = "idle"
    BY <2>1 DEF Idle, Handling
  <2> QED
    BY <2>1, <2>2, SecretMoved DEF At, HasRead, Editing
<1>12. CASE Restart
  <2>1. UNCHANGED <<row, keychain>> /\ torn' = torn \cup HalfWay /\ call'[Edit].at = "idle"
    BY <1>0, <1>12 DEF Restart, Idle, Handling
  <2> QED
    BY <2>1, SecretTorn
<1>13. CASE UNCHANGED vars
  BY <1>13, SecretSame DEF vars
<1> QED
  BY <1>0, <1>1, <1>2, <1>4, <1>5, <1>6, <1>7, <1>8, <1>9, <1>10, <1>11, <1>12, <1>13
     DEF ConnNext, Calls

(* Rows and keychain agree on a profile that no save or delete works on or *)
(* has been stopped half way with.                                         *)
THEOREM SecretsFollow == ConnSpec => []SecretsFollowRows
<1>1. ConnInit => SecretInv
  BY ConnAssumption DEF ConnInit, SecretInv, HasRead, Editing, Saving, Deleting, Agrees, At, Idle,
     Handling, Calls
<1>2. CallsOK /\ TablesOK /\ SecretInv /\ [ConnNext]_vars => SecretInv'
  BY SecretStep
<1>3. SecretInv => SecretsFollowRows
  BY DEF SecretInv, Saving, Deleting, Agrees, At, SecretsFollowRows
<1> QED
  BY <1>1, <1>2, <1>3, TypeCorrect, PTL DEF ConnSpec
===========================================================================
