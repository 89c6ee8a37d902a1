------------------------ MODULE ResponseRecordsProofs ------------------------
(***************************************************************************)
(* Proofs about ResponseRecords, for any responses, windows and revisions. *)
(***************************************************************************)
EXTENDS ResponseRecords, SequenceTheorems, TLAPS

\* What a revision adds to a history.
LEMMA Appended ==
  ASSUME NEW T, NEW s \in Seq(T), NEW e \in T, NEW r, r = Append(s, e)
  PROVE  /\ r \in Seq(T) /\ Len(r) = Len(s) + 1
         /\ r[Len(s) + 1] = e /\ (\A i \in 1..Len(s) : r[i] = s[i])
BY AppendProperties

LEMMA InitType == Init => TypeOK
<1> SUFFICES ASSUME Init PROVE TypeOK OBVIOUS
<1>1. item \in Seq(ItemRevision) BY DEF Init, ItemRevision, ItemStatus
<1>2. brief \in Seq(BriefRevision) BY DEF Init
<1> QED BY <1>1, <1>2 DEF Init, TypeOK, NothingRead, NoContext, NoUpdate, NoProposal

\* A saved revision has its type.
LEMMA ItemType ==
  ASSUME item \in Seq(ItemRevision), NEW e \in Nat, NEW b \in Nat, NEW o \in Nat,
         NEW s \in ItemStatus, ReviseItem(e, b, o, s)
  PROVE  item' \in Seq(ItemRevision)
<1>1. [base |-> b, orig |-> o, status |-> s] \in ItemRevision BY DEF ItemRevision
<1> QED BY <1>1, AppendProperties DEF ReviseItem

LEMMA BriefType ==
  ASSUME brief \in Seq(BriefRevision), NEW e \in Nat, NEW b \in Nat, NEW x \in Nat,
         NEW h \in {"edit", "auto", "apply", "undo"}, NEW y \in Turns \cup {"window"},
         SaveBrief(e, b, x, h, y)
  PROVE  brief' \in Seq(BriefRevision)
<1>1. [base |-> b, text |-> x, how |-> h, by |-> y] \in BriefRevision BY DEF BriefRevision
<1> QED BY <1>1, AppendProperties DEF SaveBrief

\* Every action keeps the types.
LEMMA TypeStep == ASSUME TypeOK, [Next]_vars PROVE TypeOK'
<1> DEFINE T == [Turns -> [status: {"new", "running", "ended"}, attached: Nat,
                           library: SUBSET Entry]]
           R == [Turns -> [source: Nat, item: Nat]]
           C == [Turns -> [rev: Nat, text: Nat]]
           U == [Turns -> [expected: Nat, base: Nat, orig: Nat]]
           P == [Turns -> [stage: {"none", "pending", "automatic", "applied",
                                   "dismissed", "undone"}, applied: Nat]]
<1>0. /\ source \in [no: Nat, state: {"active", "trashed", "undone"}]
      /\ item \in Seq(ItemRevision) /\ brief \in Seq(BriefRevision)
      /\ Len(item) \in Nat /\ Len(brief) \in Nat
      /\ turn \in T /\ read \in R /\ context \in C /\ update \in U /\ proposal \in P
  BY LenProperties DEF TypeOK
<1>1. ASSUME NEW t \in Turns, Response(t) PROVE TypeOK'
  <2>1. ASSUME NEW a \in 0..source.no, Begin(t, a) PROVE TypeOK'
    <3>1. Library \subseteq Entry BY <1>0 DEF Library, Entry, Active, Approved
    <3>2. turn' \in T BY <1>0, <2>1, <3>1 DEF Begin
    <3>3. BriefNow \in [rev: Nat, text: Nat]
      <4>1. CASE brief = <<>> BY <4>1 DEF BriefNow, NoContext
      <4>2. CASE brief # <<>>
        <5>1. Len(brief) \in 1..Len(brief) BY <1>0, <4>2, EmptySeq
        <5>2. brief[Len(brief)] \in BriefRevision BY <1>0, <5>1, ElementOfSeq
        <5> QED BY <1>0, <4>2, <5>2 DEF BriefNow, BriefRevision
      <4> QED BY <4>1, <4>2
    <3>4. context' \in C BY <1>0, <2>1, <3>3 DEF Begin
    <3>5. used' \in BOOLEAN BY <2>1 DEF Begin
    <3> QED BY <2>1, <3>2, <3>4, <3>5 DEF TypeOK, Begin
  <2>2. ASSUME NEW n \in 1..source.no, ReadSource(t, n) PROVE TypeOK'
    <3>1. read' \in R BY <1>0, <2>2 DEF ReadSource
    <3> QED BY <2>2, <3>1 DEF TypeOK, ReadSource
  <2>3. ASSUME NEW n \in 1..source.no, ReplaceOriginal(t, n) PROVE TypeOK'
    <3>1. update' \in U BY <1>0, <2>3 DEF ReplaceOriginal
    <3> QED BY <2>3, <3>1 DEF TypeOK, ReplaceOriginal
  <2>4. ASSUME NEW n \in 1..Len(item), ReadItem(t, n) PROVE TypeOK'
    <3>1. read' \in R BY <1>0, <2>4 DEF ReadItem
    <3> QED BY <2>4, <3>1 DEF TypeOK, ReadItem
  <2>5. ASSUME NEW n \in 1..Len(item), ReplaceItem(t, n) PROVE TypeOK'
    <3>1. update' \in U BY <1>0, <2>5 DEF ReplaceItem
    <3> QED BY <2>5, <3>1 DEF TypeOK, ReplaceItem
  <2>6. ASSUME NEW g \in Suggestions, Complete(t, g) PROVE TypeOK'
    <3>1. item' \in Seq(ItemRevision)
      <4>1. update[t].expected \in Nat /\ update[t].base \in Nat /\ update[t].orig \in Nat
        BY <1>0
      <4>2. "pending" \in ItemStatus BY DEF ItemStatus
      <4> QED BY <1>0, <2>6, <4>1, <4>2, ItemType DEF Complete, CompleteUpdate
    <3>2. context[t].rev \in Nat /\ Len(brief) + 1 \in Nat BY <1>0
    <3>3. brief' \in Seq(BriefRevision) /\ proposal' \in P
      <4>1. CASE UNCHANGED <<brief, proposal>> BY <1>0, <4>1
      <4>2. CASE /\ proposal' = [proposal EXCEPT ![t] = [stage |-> "pending", applied |-> 0]]
                 /\ UNCHANGED brief
        BY <1>0, <4>2
      <4>3. CASE /\ SaveBrief(context[t].rev, context[t].rev, Len(brief) + 1, "auto", t)
                 /\ proposal' = [proposal EXCEPT ![t] =
                      [stage |-> "automatic", applied |-> Len(brief) + 1]]
        <5>1. brief' \in Seq(BriefRevision) BY <1>0, <3>2, <4>3, BriefType
        <5>2. proposal' \in P BY <1>0, <3>2, <4>3
        <5> QED BY <5>1, <5>2
      <4> QED BY <2>6, <4>1, <4>2, <4>3 DEF Complete, CompleteBrief
    <3>4. turn' \in T BY <1>0, <2>6 DEF Complete, Ended
    <3>5. read' \in R /\ update' \in U BY <1>0, <2>6 DEF Complete, NothingRead, NoUpdate
    <3>6. context' \in C BY <1>0, <2>6 DEF Complete, NoContext
    <3> QED BY <2>6, <3>1, <3>3, <3>4, <3>5, <3>6 DEF TypeOK, Complete
  <2>7. ASSUME Stop(t) PROVE TypeOK'
    <3>1. turn' \in T BY <1>0, <2>7 DEF Stop, Ended
    <3>2. read' \in R /\ update' \in U /\ context' \in C
      BY <1>0, <2>7 DEF Stop, NothingRead, NoUpdate, NoContext
    <3> QED BY <2>7, <3>1, <3>2 DEF TypeOK, Stop
  <2> QED BY <1>1, <2>1, <2>2, <2>3, <2>4, <2>5, <2>6, <2>7 DEF Response
<1>2. ASSUME NEW w \in Windows, Window(w) PROVE TypeOK'
  <2>0. seen[w].item \in Nat /\ seen[w].brief \in Nat BY DEF TypeOK
  <2>1. CASE Open(w)
    <3>1. seen' \in [Windows -> [item: Nat, brief: Nat]] BY <1>0, <2>1 DEF TypeOK, Open
    <3> QED BY <2>1, <3>1 DEF TypeOK, Open
  <2>2. CASE EditItem(w)
    <3>1. item' \in Seq(ItemRevision)
      BY <1>0, <2>0, <2>2, ItemType DEF EditItem, ItemStatus
    <3> QED BY <2>2, <3>1 DEF TypeOK, EditItem
  <2>3. ASSUME NEW o \in {"approved", "rejected"}, ReviewItem(w, o) PROVE TypeOK'
    <3>1. item' \in Seq(ItemRevision)
      BY <1>0, <2>0, <2>3, ItemType DEF ReviewItem, ItemStatus
    <3> QED BY <2>3, <3>1 DEF TypeOK, ReviewItem
  <2>4. CASE EditBrief(w)
    <3>1. brief' \in Seq(BriefRevision)
      BY <1>0, <2>0, <2>4, BriefType DEF EditBrief
    <3> QED BY <2>4, <3>1 DEF TypeOK, EditBrief
  <2> QED BY <1>2, <2>1, <2>2, <2>3, <2>4 DEF Window
<1>3. ASSUME Manage PROVE TypeOK'
  <2>1. CASE TrashSource \/ RestoreSource \/ TrashItem \/ RestoreItem
    BY <2>1 DEF TypeOK, TrashSource, RestoreSource, TrashItem, RestoreItem
  <2>2. CASE ReviseSource BY <2>2 DEF TypeOK, ReviseSource
  <2>3. CASE UndoImport
    <3>1. item' \in Seq(ItemRevision) BY <1>0, <2>3, ItemType DEF UndoImport, ItemStatus
    <3>2. source' \in [no: Nat, state: {"active", "trashed", "undone"}]
      BY <1>0, <2>3 DEF UndoImport
    <3> QED BY <2>3, <3>1, <3>2 DEF TypeOK, UndoImport
  <2>4. ASSUME NEW t \in Turns, ApplyBrief(t) PROVE TypeOK'
    <3>1. context[t].rev \in Nat /\ Len(brief) + 1 \in Nat BY <1>0
    <3>2. brief' \in Seq(BriefRevision) BY <1>0, <2>4, <3>1, BriefType DEF ApplyBrief
    <3>3. proposal' \in P BY <1>0, <2>4 DEF ApplyBrief
    <3> QED BY <2>4, <3>2, <3>3 DEF TypeOK, ApplyBrief
  <2>5. ASSUME NEW t \in Turns, DismissBrief(t) PROVE TypeOK'
    <3>1. proposal' \in P BY <1>0, <2>5 DEF DismissBrief
    <3> QED BY <2>5, <3>1 DEF TypeOK, DismissBrief
  <2>6. ASSUME NEW t \in Turns, UndoBrief(t) PROVE TypeOK'
    <3>1. context[t].text \in Nat /\ proposal[t].applied \in Nat BY <1>0
    <3>2. brief' \in Seq(BriefRevision) BY <1>0, <2>6, <3>1, BriefType DEF UndoBrief
    <3>3. proposal' \in P BY <1>0, <2>6 DEF UndoBrief
    <3> QED BY <2>6, <3>2, <3>3 DEF TypeOK, UndoBrief
  <2> QED BY <1>3, <2>1, <2>2, <2>3, <2>4, <2>5, <2>6 DEF Manage
<1>4. CASE UNCHANGED vars BY <1>4 DEF TypeOK, vars
<1> QED BY <1>1, <1>2, <1>3, <1>4 DEF Next

\* Every reachable state has its types.
THEOREM TypeCorrect == Spec => []TypeOK
<1>1. Init => TypeOK BY InitType
<1>2. TypeOK /\ [Next]_vars => TypeOK' BY TypeStep
<1> QED BY <1>1, <1>2, PTL DEF Spec

-----------------------------------------------------------------------------
(***************************************************************************)
(* Records in use.  A response holds what it was given or has read only    *)
(* while it runs; what it is about to replace it has read or was given;    *)
(* and whatever it holds of the original was noted as used.                *)
(***************************************************************************)
HoldsSource(t) == turn[t].attached # 0 \/ read[t].source # 0
HoldsItem(t) == turn[t].library # {} \/ read[t].item # 0

Held ==
  \A t \in Turns :
    /\ ~Running(t) => turn[t].library = {} /\ read[t] = NothingRead /\ update[t] = NoUpdate
    /\ Running(t) /\ update[t] # NoUpdate => HoldsItem(t)
    /\ Running(t) /\ HoldsSource(t) => SourceIsKept /\ used
    /\ Running(t) /\ HoldsItem(t) => ItemIsKept

PutAwayUnused == source.state = "undone" => ~used

UseInv == Held /\ PutAwayUnused

LEMMA InitUse == Init => UseInv
BY DEF Init, UseInv, Held, PutAwayUnused, Running, NothingRead, NoUpdate, HoldsSource, HoldsItem

LEMMA ResponseUse ==
  ASSUME TypeOK, UseInv, NEW t \in Turns, Response(t)
  PROVE  UseInv'
<1>0. /\ \A u \in Turns : turn[u] \in [status: {"new", "running", "ended"}, attached: Nat,
                                       library: SUBSET Entry]
      /\ read \in [Turns -> [source: Nat, item: Nat]] /\ Held
      /\ DOMAIN turn = Turns /\ DOMAIN read = Turns /\ DOMAIN update = Turns
  BY DEF TypeOK, UseInv
<1>1. ASSUME NEW a \in 0..source.no, Begin(t, a) PROVE UseInv'
  <2>0. turn' = [turn EXCEPT ![t] = [status |-> "running", attached |-> a, library |-> Library]]
    BY <1>1 DEF Begin
  <2>1. Library # {} => ItemIsKept BY DEF Library
  <2>2. read[t] = NothingRead /\ update[t] = NoUpdate BY <1>0, <1>1 DEF Begin, Held, Running
  <2>3. Held'
    <3>1. ASSUME NEW u \in Turns, u # t
          PROVE turn'[u] = turn[u] /\ read'[u] = read[u] /\ update'[u] = update[u]
      BY <1>0, <1>1, <2>0, <3>1 DEF Begin
    <3>2. turn'[t].attached = a /\ turn'[t].library = Library /\ turn'[t].status = "running"
      BY <1>0, <2>0
    <3>3. (used => used') /\ (a # 0 => used' /\ SourceIsKept) BY <1>1 DEF Begin
    <3> QED BY <1>0, <1>1, <2>1, <2>2, <3>1, <3>2, <3>3
         DEF Begin, Held, Running, HoldsSource, HoldsItem, SourceIsKept, ItemIsKept, NothingRead
  <2>4. PutAwayUnused' BY <1>1 DEF UseInv, Begin, PutAwayUnused, SourceIsKept
  <2> QED BY <2>3, <2>4 DEF UseInv
<1>2. ASSUME NEW n \in 1..source.no, ReadSource(t, n) PROVE UseInv'
  <2>1. /\ SourceIsKept /\ Running(t) /\ used'
        /\ read' = [read EXCEPT ![t] = [@ EXCEPT !.source = n]]
        /\ UNCHANGED <<source, itemState, turn, update>>
    BY <1>2 DEF ReadSource, MayReadSource
  <2>2. read'[t].item = read[t].item BY <1>0, <2>1
  <2>3. \A u \in Turns : u # t => read'[u] = read[u] BY <1>0, <2>1
  <2> QED BY <1>0, <2>1, <2>2, <2>3
       DEF UseInv, Held, PutAwayUnused, Running, HoldsSource, HoldsItem, SourceIsKept, ItemIsKept
<1>3. ASSUME NEW n \in 1..Len(item), ReadItem(t, n) PROVE UseInv'
  <2>1. /\ ItemIsKept /\ Running(t)
        /\ read' = [read EXCEPT ![t] = [@ EXCEPT !.item = n]]
        /\ UNCHANGED <<source, itemState, turn, update, used>>
    BY <1>3 DEF ReadItem, MayReadItem
  <2>2. read'[t].source = read[t].source BY <1>0, <2>1
  <2>3. \A u \in Turns : u # t => read'[u] = read[u] BY <1>0, <2>1
  <2>4. read'[t].item = n /\ n # 0
    <3>1. Len(item) \in Nat BY LenProperties DEF TypeOK
    <3> QED BY <1>0, <2>1, <3>1
  <2> QED BY <1>0, <2>1, <2>2, <2>3, <2>4
       DEF UseInv, Held, PutAwayUnused, Running, HoldsSource, HoldsItem, SourceIsKept, ItemIsKept
<1>4. ASSUME NEW n \in 1..source.no, ReplaceOriginal(t, n) PROVE UseInv'
  <2>1. /\ turn[t].library # {} /\ Running(t)
        /\ \A u \in Turns : u # t => update'[u] = update[u]
        /\ UNCHANGED <<source, itemState, turn, read, used>>
    BY <1>0, <1>4 DEF ReplaceOriginal
  <2> QED BY <1>0, <2>1
       DEF UseInv, Held, PutAwayUnused, Running, HoldsSource, HoldsItem, SourceIsKept, ItemIsKept
<1>5. ASSUME NEW n \in 1..Len(item), ReplaceItem(t, n) PROVE UseInv'
  <2>0. Len(item) \in Nat BY LenProperties DEF TypeOK
  <2>1. /\ read[t].item # 0 /\ Running(t)
        /\ \A u \in Turns : u # t => update'[u] = update[u]
        /\ UNCHANGED <<source, itemState, turn, read, used>>
    BY <1>0, <1>5, <2>0 DEF ReplaceItem
  <2> QED BY <1>0, <2>1
       DEF UseInv, Held, PutAwayUnused, Running, HoldsSource, HoldsItem, SourceIsKept, ItemIsKept
<1>6. ASSUME \/ \E g \in Suggestions : Complete(t, g)
             \/ Stop(t)
      PROVE UseInv'
  <2>1. /\ turn' = [turn EXCEPT ![t] = Ended]
        /\ read' = [read EXCEPT ![t] = NothingRead]
        /\ update' = [update EXCEPT ![t] = NoUpdate]
        /\ UNCHANGED <<source, itemState, used>>
    BY <1>6 DEF Complete, Stop
  <2>2. turn'[t] = Ended /\ read'[t] = NothingRead /\ update'[t] = NoUpdate BY <1>0, <2>1
  <2>3. \A u \in Turns : u # t => turn'[u] = turn[u] /\ read'[u] = read[u] /\ update'[u] = update[u]
    BY <1>0, <2>1
  <2>4. Ended.status # "running" /\ Ended.library = {} BY DEF Ended
  <2> QED BY <1>0, <2>1, <2>2, <2>3, <2>4
       DEF UseInv, Held, PutAwayUnused, Running, HoldsSource, HoldsItem, SourceIsKept, ItemIsKept
<1> QED BY <1>1, <1>2, <1>3, <1>4, <1>5, <1>6 DEF Response

LEMMA ManageUse ==
  ASSUME TypeOK, UseInv, Manage
  PROVE  UseInv'
<1>0. UNCHANGED <<turn, read, update, used>>
  BY DEF Manage, TrashSource, RestoreSource, TrashItem, RestoreItem, ReviseSource, UndoImport,
         ApplyBrief, DismissBrief, UndoBrief
<1>1. source \in [no: Nat, state: {"active", "trashed", "undone"}] BY DEF TypeOK
<1>2. CASE TrashSource
  <2>1. ~SourceInUse /\ source'.state = "trashed" /\ UNCHANGED itemState
    BY <1>1, <1>2 DEF TrashSource
  <2> QED BY <1>0, <2>1
       DEF UseInv, Held, PutAwayUnused, Running, HoldsSource, HoldsItem, SourceIsKept,
           ItemIsKept, SourceInUse
<1>3. CASE UndoImport
  <2>1. ~used /\ UNCHANGED itemState BY <1>3 DEF UndoImport
  <2> QED BY <1>0, <2>1
       DEF UseInv, Held, PutAwayUnused, Running, HoldsSource, HoldsItem, ItemIsKept
<1>4. CASE TrashItem
  <2>1. ~ItemInUse /\ UNCHANGED source BY <1>4 DEF TrashItem
  <2> QED BY <1>0, <2>1
       DEF UseInv, Held, PutAwayUnused, Running, HoldsSource, HoldsItem, SourceIsKept, ItemInUse
<1>5. CASE RestoreSource \/ RestoreItem \/ ReviseSource
  <2>1. /\ source'.state \in {source.state, "active"} /\ itemState' \in {itemState, "active"}
    BY <1>1, <1>5 DEF RestoreSource, RestoreItem, ReviseSource
  <2> QED BY <1>0, <2>1
       DEF UseInv, Held, PutAwayUnused, Running, HoldsSource, HoldsItem, SourceIsKept, ItemIsKept
<1>6. CASE \E t \in Turns : ApplyBrief(t) \/ DismissBrief(t) \/ UndoBrief(t)
  <2>1. UNCHANGED <<source, itemState>> BY <1>6 DEF ApplyBrief, DismissBrief, UndoBrief
  <2> QED BY <1>0, <2>1
       DEF UseInv, Held, PutAwayUnused, Running, HoldsSource, HoldsItem, SourceIsKept, ItemIsKept
<1> QED BY <1>2, <1>3, <1>4, <1>5, <1>6 DEF Manage

LEMMA UseStep == TypeOK /\ UseInv /\ [Next]_vars => UseInv'
<1> SUFFICES ASSUME TypeOK, UseInv, [Next]_vars PROVE UseInv' OBVIOUS
<1>1. CASE (\E w \in Windows : Window(w)) \/ UNCHANGED vars
  <2>1. UNCHANGED <<source, itemState, turn, read, update, used>>
    BY <1>1 DEF Window, Open, EditItem, ReviewItem, EditBrief, vars
  <2> QED BY <2>1
       DEF UseInv, Held, PutAwayUnused, Running, HoldsSource, HoldsItem, SourceIsKept, ItemIsKept
<1> QED BY <1>1, ResponseUse, ManageUse DEF Next

LEMMA UseInvariant == Spec => []UseInv
<1>1. Init => UseInv BY InitUse
<1>2. TypeOK /\ UseInv /\ [Next]_vars => UseInv' BY UseStep
<1> QED BY <1>1, <1>2, TypeCorrect, PTL DEF Spec

\* No record that a running response uses is in Trash, and an undone import's
\* original was never used: begin, the tools, changeRecord and undoImport agree.
THEOREM UsedRecordsKept == Spec => []UsedRecordsAreKept
<1>1. UseInv => UsedRecordsAreKept
  BY DEF UseInv, Held, PutAwayUnused, UsedRecordsAreKept, HoldsSource, HoldsItem
<1> QED BY <1>1, UseInvariant, PTL

-----------------------------------------------------------------------------
(***************************************************************************)
(* Edits of the practice item.  A staged replacement whose item has not    *)
(* changed since has in front of it all that still stands of the item.     *)
(***************************************************************************)
Stands(base) ==
  \/ base = Len(item)
  \/ /\ Len(item) = 1 \/ LatestIsRejected
     /\ \A n \in base + 1 .. Len(item) : item[n].status # "approved"

Prepared ==
  /\ Len(item) >= 1
  /\ \A t \in Turns : update[t] # NoUpdate =>
       /\ update[t].expected <= Len(item)
       /\ update[t].expected = Len(item) => Stands(update[t].base)

\* What reviseKnowledge does to the history.
LEMMA Revised ==
  ASSUME TypeOK, NEW e \in Nat, NEW b \in Nat, NEW o \in Nat, NEW s \in ItemStatus,
         ReviseItem(e, b, o, s)
  PROVE  /\ e = Len(item) /\ Len(item) \in Nat /\ Len(item') = Len(item) + 1
         /\ item'[Len(item) + 1] = [base |-> b, orig |-> o, status |-> s]
         /\ \A n \in 1..Len(item) : item'[n] = item[n]
<1>1. [base |-> b, orig |-> o, status |-> s] \in ItemRevision BY DEF ItemRevision
<1>2. item \in Seq(ItemRevision) /\ Len(item) \in Nat BY LenProperties DEF TypeOK
<1>3. item' = Append(item, [base |-> b, orig |-> o, status |-> s]) /\ e = Len(item)
  BY DEF ReviseItem
<1> QED BY <1>1, <1>2, <1>3, Appended

\* Every new revision of the item: a landed replacement, or one by a window
\* or by the undo of the import.
LEMMA NewRevision ==
  ASSUME TypeOK, [Next]_vars, item' # item
  PROVE  \/ /\ \E t \in Turns : /\ update[t] # NoUpdate /\ UpdateIsCurrent(update[t])
                                /\ ReviseItem(update[t].expected, update[t].base,
                                              update[t].orig, "pending")
                                /\ update' = [update EXCEPT ![t] = NoUpdate]
            /\ UNCHANGED <<origin, source, itemState>>
         \/ /\ \E e \in Nat, s \in ItemStatus : ReviseItem(e, e, 0, s)
            /\ UNCHANGED <<origin, source, itemState, update>>
         \/ UndoImport
<1>0. Len(item) \in Nat BY LenProperties DEF TypeOK
<1>1. ASSUME NEW t \in Turns, Response(t)
      PROVE  /\ update[t] # NoUpdate /\ UpdateIsCurrent(update[t])
             /\ ReviseItem(update[t].expected, update[t].base, update[t].orig, "pending")
             /\ update' = [update EXCEPT ![t] = NoUpdate]
             /\ UNCHANGED <<origin, source, itemState>>
  BY <1>1 DEF Response, Begin, ReadSource, ReadItem, ReplaceOriginal, ReplaceItem, Stop,
              Complete, CompleteUpdate
<1>2. ASSUME NEW w \in Windows, Window(w)
      PROVE  /\ \E e \in Nat, s \in ItemStatus : ReviseItem(e, e, 0, s)
             /\ UNCHANGED <<origin, source, itemState, update>>
  <2>1. seen[w].item \in Nat BY DEF TypeOK
  <2>2. CASE EditItem(w) BY <2>1, <2>2 DEF EditItem, ItemStatus
  <2>3. ASSUME NEW o \in {"approved", "rejected"}, ReviewItem(w, o)
        PROVE  /\ \E e \in Nat, s \in ItemStatus : ReviseItem(e, e, 0, s)
               /\ UNCHANGED <<origin, source, itemState, update>>
    <3>1. seen[w].item = Len(item) /\ ReviseItem(seen[w].item, Len(item), 0, o)
      BY <2>3 DEF ReviewItem
    <3>2. ReviseItem(Len(item), Len(item), 0, o) BY <3>1
    <3> QED BY <1>0, <2>3, <3>2 DEF ReviewItem, ItemStatus
  <2> QED BY <1>2, <2>2, <2>3 DEF Window, Open, EditBrief
<1>3. CASE Manage
  BY <1>3 DEF Manage, TrashSource, RestoreSource, TrashItem, RestoreItem, ReviseSource,
              ApplyBrief, DismissBrief, UndoBrief
<1> QED BY <1>1, <1>2, <1>3 DEF Next, vars

LEMMA InitPrepared == Init => Prepared
BY DEF Init, Prepared

LEMMA PreparedStep == TypeOK /\ Prepared /\ [Next]_vars => Prepared'
<1> SUFFICES ASSUME TypeOK, Prepared, [Next]_vars PROVE Prepared' OBVIOUS
<1>0. /\ update \in [Turns -> [expected: Nat, base: Nat, orig: Nat]]
      /\ item \in Seq(ItemRevision) /\ Len(item) \in Nat
  BY LenProperties DEF TypeOK
<1>1. CASE item' # item
  <2>1. /\ Len(item') = Len(item) + 1
        /\ \A t \in Turns : update'[t] \in {update[t], NoUpdate}
    <3>1. ASSUME NEW t \in Turns, UpdateIsCurrent(update[t]),
                 ReviseItem(update[t].expected, update[t].base, update[t].orig, "pending"),
                 update' = [update EXCEPT ![t] = NoUpdate]
          PROVE  /\ Len(item') = Len(item) + 1
                 /\ \A u \in Turns : update'[u] \in {update[u], NoUpdate}
      <4>1. /\ update[t].expected \in Nat /\ update[t].base \in Nat /\ update[t].orig \in Nat
            /\ "pending" \in ItemStatus
        BY <1>0 DEF ItemStatus
      <4> QED BY <1>0, <3>1, <4>1, Revised
    <3>2. CASE /\ \E e \in Nat, s \in ItemStatus : ReviseItem(e, e, 0, s)
               /\ UNCHANGED update
      BY <3>2, Revised
    <3>3. CASE UndoImport
      <4>1. ReviseItem(Len(item), Len(item), 0, "rejected") /\ UNCHANGED update
        BY <3>3 DEF UndoImport
      <4>2. "rejected" \in ItemStatus BY DEF ItemStatus
      <4> QED BY <1>0, <4>1, <4>2, Revised
    <3> QED BY <1>1, <3>1, <3>2, <3>3, NewRevision
  <2> QED BY <1>0, <2>1 DEF Prepared
<1>2. CASE item' = item
  <2>1. ASSUME NEW t \in Turns, update'[t] # update[t], update'[t] # NoUpdate
        PROVE  update'[t].expected = Len(item) /\ Stands(update'[t].base)
    <3>1. CASE \E n \in 1..Len(item) : ReplaceItem(t, n)
      <4>1. PICK n \in 1..Len(item) : ReplaceItem(t, n) BY <3>1
      <4>2. update'[t] = [expected |-> Len(item), base |-> n, orig |-> 0]
        BY <1>0, <4>1 DEF ReplaceItem
      <4>3. ASSUME NEW m \in n + 1 .. Len(item) PROVE item[m].status # "approved"
        BY <1>0, <4>1 DEF ReplaceItem, Active, Approved
      <4> QED BY <4>1, <4>2, <4>3 DEF ReplaceItem, Stands
    <3>2. CASE \E n \in 1..source.no : ReplaceOriginal(t, n)
      <4>1. PICK n \in 1..source.no : ReplaceOriginal(t, n) BY <3>2
      <4>2. update'[t] = [expected |-> Len(item), base |-> 0, orig |-> n]
        BY <1>0, <4>1 DEF ReplaceOriginal
      <4>3. Approved = {} BY <4>1 DEF ReplaceOriginal, Library
      <4>4. Len(item) = 1 \/ LatestIsRejected BY <4>1 DEF ReplaceOriginal
      <4>5. \A m \in 0 + 1 .. Len(item) : item[m].status # "approved"
        BY <4>3 DEF Approved
      <4>6. Stands(0) BY <4>4, <4>5 DEF Stands
      <4> QED BY <4>2, <4>6
    <3>3. \E u \in Turns : \/ \E n \in 1..Len(item) : ReplaceItem(u, n)
                           \/ \E n \in 1..source.no : ReplaceOriginal(u, n)
                           \/ update' = [update EXCEPT ![u] = NoUpdate]
      BY <2>1 DEF Next, vars, Manage, TrashSource, RestoreSource, TrashItem, RestoreItem,
           ReviseSource, UndoImport, ApplyBrief, DismissBrief, UndoBrief, Window, Open,
           EditItem, ReviewItem, EditBrief, Response, Begin, ReadSource, ReadItem, Stop, Complete
    <3>4. PICK u \in Turns : \/ \E n \in 1..Len(item) : ReplaceItem(u, n)
                             \/ \E n \in 1..source.no : ReplaceOriginal(u, n)
                             \/ update' = [update EXCEPT ![u] = NoUpdate]
      BY <3>3
    <3>5. u = t BY <1>0, <2>1, <3>4 DEF ReplaceItem, ReplaceOriginal
    <3>6. update' # [update EXCEPT ![t] = NoUpdate] BY <1>0, <2>1
    <3> QED BY <3>1, <3>2, <3>4, <3>5, <3>6
  <2> QED BY <1>0, <1>2, <2>1 DEF Prepared, Stands, LatestIsRejected
<1> QED BY <1>1, <1>2

LEMMA PreparedInvariant == Spec => []Prepared
<1>1. Init => Prepared BY InitPrepared
<1>2. TypeOK /\ Prepared /\ [Next]_vars => Prepared' BY PreparedStep
<1> QED BY <1>1, <1>2, TypeCorrect, PTL DEF Spec

\* A step that adds a revision of the item respects what stood before.
LEMMA EditStep ==
  ASSUME TypeOK, Prepared, [Next]_vars, item' # item
  PROVE  LET new == item'[Len(item')] IN
         /\ new.orig \in {0, source.no}
         /\ Stands(new.base)
<1>0. /\ update \in [Turns -> [expected: Nat, base: Nat, orig: Nat]]
      /\ item \in Seq(ItemRevision) /\ Len(item) \in Nat
  BY LenProperties DEF TypeOK
<1>1. ASSUME NEW t \in Turns, update[t] # NoUpdate, UpdateIsCurrent(update[t]),
             ReviseItem(update[t].expected, update[t].base, update[t].orig, "pending")
      PROVE  /\ item'[Len(item')].orig \in {0, source.no}
             /\ Stands(item'[Len(item')].base)
  <2>1. /\ update[t].expected \in Nat /\ update[t].base \in Nat /\ update[t].orig \in Nat
        /\ "pending" \in ItemStatus
    BY <1>0 DEF ItemStatus
  <2>2. /\ Len(item') = Len(item) + 1 /\ update[t].expected = Len(item)
        /\ item'[Len(item) + 1] = [base |-> update[t].base, orig |-> update[t].orig,
                                   status |-> "pending"]
    BY <1>1, <2>1, Revised
  <2>3. Stands(update[t].base) BY <1>1, <2>2 DEF Prepared
  <2>4. update[t].orig \in {0, source.no} BY <1>1 DEF UpdateIsCurrent
  <2> QED BY <2>2, <2>3, <2>4
<1>2. ASSUME NEW e \in Nat, NEW s \in ItemStatus, ReviseItem(e, e, 0, s)
      PROVE  /\ item'[Len(item')].orig \in {0, source.no}
             /\ Stands(item'[Len(item')].base)
  <2>1. /\ Len(item') = Len(item) + 1 /\ e = Len(item)
        /\ item'[Len(item) + 1] = [base |-> e, orig |-> 0, status |-> s]
    BY <1>2, Revised
  <2> QED BY <2>1 DEF Stands
<1>3. CASE UndoImport
  <2>1. ReviseItem(Len(item), Len(item), 0, "rejected") /\ "rejected" \in ItemStatus
    BY <1>3 DEF UndoImport, ItemStatus
  <2> QED BY <1>0, <1>2, <2>1
<1> QED BY <1>1, <1>2, <1>3, NewRevision

\* Whoever saves the brief had the latest revision before him.
LEMMA BriefEdit ==
  ASSUME TypeOK, [Next]_vars, brief' # brief
  PROVE  \E x \in Nat, h \in {"edit", "auto", "apply", "undo"}, y \in Turns \cup {"window"} :
           brief' = Append(brief, [base |-> Len(brief), text |-> x, how |-> h, by |-> y])
<1>0. Len(brief) + 1 \in Nat BY LenProperties DEF TypeOK
<1>1. ASSUME NEW t \in Turns, Response(t)
      PROVE  SaveBrief(context[t].rev, context[t].rev, Len(brief) + 1, "auto", t)
  BY <1>1 DEF Response, Begin, ReadSource, ReadItem, ReplaceOriginal, ReplaceItem, Stop,
              Complete, CompleteBrief
<1>2. ASSUME NEW w \in Windows, Window(w)
      PROVE  SaveBrief(seen[w].brief, seen[w].brief, Len(brief) + 1, "edit", "window")
  BY <1>2 DEF Window, Open, EditItem, ReviewItem, EditBrief
<1>3. ASSUME Manage
      PROVE  \E t \in Turns :
               \/ SaveBrief(context[t].rev, context[t].rev, Len(brief) + 1, "apply", t)
               \/ /\ SaveBrief(proposal[t].applied, proposal[t].applied, context[t].text, "undo", t)
                  /\ context[t].text \in Nat
  <2>1. \A t \in Turns : context[t].text \in Nat BY DEF TypeOK
  <2> QED BY <1>3, <2>1 DEF Manage, TrashSource, RestoreSource, TrashItem, RestoreItem,
              ReviseSource, UndoImport, ApplyBrief, DismissBrief, UndoBrief
<1>4. brief' = brief \/ Manage \/ (\E t \in Turns : Response(t)) \/ (\E w \in Windows : Window(w))
  BY DEF Next, vars
<1> QED BY <1>0, <1>1, <1>2, <1>3, <1>4 DEF SaveBrief

\* Nobody overwrites an edit he has not seen, for any responses and windows.
THEOREM EditsNotLost == Spec => NoEditIsLost
<1> DEFINE Kept ==
      /\ brief' # brief => brief'[Len(brief')].base = Len(brief)
      /\ item' # item =>
           LET new == item'[Len(item')] IN
           /\ new.orig \in {0, source.no}
           /\ \/ new.base = Len(item)
              \/ /\ Len(item) = 1 \/ LatestIsRejected
                 /\ \A n \in new.base + 1 .. Len(item) : item[n].status # "approved"
<1>1. TypeOK /\ Prepared /\ [Next]_vars => [Kept]_vars
  <2> SUFFICES ASSUME TypeOK, Prepared, [Next]_vars PROVE Kept OBVIOUS
  <2>1. ASSUME brief' # brief PROVE brief'[Len(brief')].base = Len(brief)
    <3>1. PICK x \in Nat, h \in {"edit", "auto", "apply", "undo"}, y \in Turns \cup {"window"} :
            brief' = Append(brief, [base |-> Len(brief), text |-> x, how |-> h, by |-> y])
      BY <2>1, BriefEdit
    <3>2. brief \in Seq(BriefRevision) /\ Len(brief) \in Nat BY LenProperties DEF TypeOK
    <3>3. [base |-> Len(brief), text |-> x, how |-> h, by |-> y] \in BriefRevision
      BY <3>2 DEF BriefRevision
    <3> QED BY <3>1, <3>2, <3>3, Appended
  <2> QED BY <2>1, EditStep DEF Stands
<1> QED BY <1>1, TypeCorrect, PreparedInvariant, PTL DEF Spec, NoEditIsLost

\* The second revision alone withdraws the original.
LEMMA SameWithdrawal ==
  ASSUME NEW n \in Nat, n >= 1, Len(item) = n, Len(item') = n + 1,
         \A k \in 1..n : item'[k] = item[k],
         ~(n = 1 /\ item'[2].status = "rejected")
  PROVE  Withdrawn' = Withdrawn
<1>1. CASE n = 1 BY <1>1 DEF Withdrawn
<1>2. CASE n > 1 BY <1>2 DEF Withdrawn
<1> QED BY <1>1, <1>2

\* Proposed edits and their rejection leave the offered baseline as it was.
THEOREM BaselineKept == Spec => EditsKeepTheBaseline
<1> DEFINE Same ==
      /\ item' # item
      /\ item'[Len(item')].status # "approved"
      /\ ~(Len(item) = 1 /\ item'[2].status = "rejected")
      => Library' = Library
<1>1. TypeOK /\ Prepared /\ [Next]_vars => [Same]_vars
  <2> SUFFICES ASSUME TypeOK, Prepared, [Next]_vars, item' # item,
                      item'[Len(item')].status # "approved",
                      ~(Len(item) = 1 /\ item'[2].status = "rejected")
               PROVE  Library' = Library
    OBVIOUS
  <2>0. Len(item) \in Nat /\ Len(item) >= 1 BY LenProperties DEF TypeOK, Prepared
  <2>1. /\ Len(item') = Len(item) + 1 /\ (\A n \in 1..Len(item) : item'[n] = item[n])
        /\ UNCHANGED <<origin, source, itemState>>
    <3>1. ASSUME NEW t \in Turns,
                 ReviseItem(update[t].expected, update[t].base, update[t].orig, "pending")
          PROVE  Len(item') = Len(item) + 1 /\ (\A n \in 1..Len(item) : item'[n] = item[n])
      <4>1. update[t].expected \in Nat /\ update[t].base \in Nat /\ update[t].orig \in Nat
        BY DEF TypeOK
      <4>2. "pending" \in ItemStatus BY DEF ItemStatus
      <4> QED BY <3>1, <4>1, <4>2, Revised
    <3>2. ~UndoImport
      <4>1. SUFFICES ASSUME UndoImport PROVE FALSE OBVIOUS
      <4>2. /\ ReviseItem(Len(item), Len(item), 0, "rejected") /\ "rejected" \in ItemStatus
            /\ Len(item) = 1
        BY <4>1 DEF UndoImport, ItemStatus
      <4>3. item'[Len(item) + 1] = [base |-> Len(item), orig |-> 0, status |-> "rejected"]
        BY <2>0, <4>2, Revised
      <4> QED BY <4>2, <4>3
    <3> QED BY <3>1, <3>2, NewRevision, Revised
  <2>2. Approved' = Approved
    <3>1. \A n : n \in 1..Len(item') <=> n \in 1..Len(item) \/ n = Len(item) + 1
      BY <2>0, <2>1
    <3> QED BY <2>0, <2>1, <3>1 DEF Approved
  <2>3. Active' = Active BY <2>2 DEF Active
  <2>4. Withdrawn' = Withdrawn BY <2>0, <2>1, SameWithdrawal
  <2>5. SourceIsKept' = SourceIsKept /\ ItemIsKept' = ItemIsKept
    BY <2>1 DEF SourceIsKept, ItemIsKept
  <2>6. {[kind |-> "item", rev |-> n] : n \in Active'} = {[kind |-> "item", rev |-> n] : n \in Active}
    BY <2>3
  <2> HIDE DEF Approved, Active, Withdrawn, SourceIsKept, ItemIsKept
  <2> QED BY <2>1, <2>2, <2>3, <2>4, <2>5, <2>6, Zenon DEF Library
<1> QED BY <1>1, TypeCorrect, PreparedInvariant, PTL DEF Spec, EditsKeepTheBaseline

-----------------------------------------------------------------------------
(***************************************************************************)
(* The brief.  What a response was given is what the brief said at that    *)
(* revision; a suggestion that saved itself stands right after it; and     *)
(* what a response may still do is told by the stage of its suggestion.    *)
(***************************************************************************)
TextAt(n) == IF n = 0 THEN 0 ELSE brief[n].text

GivenText ==
  \A t \in Turns : context[t].rev <= Len(brief) /\ context[t].text = TextAt(context[t].rev)

Automatic ==
  \A t \in Turns : proposal[t].stage \in {"automatic", "undone"} =>
    LET n == context[t].rev + 1 IN
    /\ n <= Len(brief) /\ proposal[t].applied = n
    /\ brief[n].how = "auto" /\ brief[n].by = t

\* who wrote a revision that is not an edit, and the stage that remained
Writer(i) ==
  brief[i].how # "edit" =>
    \E t \in Turns :
      /\ brief[i].by = t
      /\ brief[i].how = "auto" => proposal[t].stage \in {"automatic", "undone"}
      /\ brief[i].how = "apply" => proposal[t].stage = "applied"
      /\ brief[i].how = "undo" => proposal[t].stage = "undone"
Writers == \A i \in 1..Len(brief) : Writer(i)

OnlyEnded ==
  \A t \in Turns : turn[t].status # "ended" =>
    proposal[t].stage = "none" /\ (turn[t].status = "new" => context[t] = NoContext)

BriefInv == GivenText /\ Automatic /\ Writers /\ OnlyEnded /\ UndoRestoresTheBrief

LEMMA InitBrief == Init => BriefInv
BY DEF Init, BriefInv, GivenText, Automatic, Writers, OnlyEnded, UndoRestoresTheBrief, TextAt,
       NoContext, NoProposal

\* A saved revision that is none of the response's earlier ones.
LEMMA Saved ==
  ASSUME TypeOK, UndoRestoresTheBrief,
         NEW e \in Nat, NEW x \in Nat, NEW h \in {"edit", "auto", "apply", "undo"},
         NEW y \in Turns \cup {"window"},
         SaveBrief(e, e, x, h, y),
         h # "edit" => \A i \in 1..Len(brief) : ~(brief[i].how = h /\ brief[i].by = y),
         h = "undo" => /\ Len(brief) >= 1 /\ brief[Len(brief)].how = "auto"
                       /\ brief[Len(brief)].by = y /\ x = TextAt(Len(brief) - 1)
  PROVE  /\ e = Len(brief) /\ Len(brief) \in Nat /\ Len(brief') = Len(brief) + 1
         /\ brief'[Len(brief) + 1] = [base |-> e, text |-> x, how |-> h, by |-> y]
         /\ (\A i \in 1..Len(brief) : brief'[i] = brief[i])
         /\ UndoRestoresTheBrief'
<1>0. brief \in Seq(BriefRevision) /\ Len(brief) \in Nat BY LenProperties DEF TypeOK
<1>1. [base |-> e, text |-> x, how |-> h, by |-> y] \in BriefRevision BY DEF BriefRevision
<1>2. /\ e = Len(brief) /\ Len(brief') = Len(brief) + 1
      /\ brief'[Len(brief) + 1] = [base |-> e, text |-> x, how |-> h, by |-> y]
      /\ (\A i \in 1..Len(brief) : brief'[i] = brief[i])
  BY <1>0, <1>1, Appended DEF SaveBrief
<1>3. \A i \in 1..Len(brief') : i \in 1..Len(brief) \/ i = Len(brief) + 1 BY <1>0, <1>2
<1>4. ASSUME NEW i \in 1..Len(brief'), brief'[i].how = "undo"
      PROVE  /\ i > 1 /\ brief'[i - 1].how = "auto" /\ brief'[i - 1].by = brief'[i].by
             /\ brief'[i].text = (IF i = 2 THEN 0 ELSE brief'[i - 2].text)
  <2>1. CASE i \in 1..Len(brief)
    <3>1. /\ i > 1 /\ brief[i - 1].how = "auto" /\ brief[i - 1].by = brief[i].by
          /\ brief[i].text = (IF i = 2 THEN 0 ELSE brief[i - 2].text)
      BY <1>2, <1>4, <2>1 DEF UndoRestoresTheBrief
    <3>2. i - 1 \in 1..Len(brief) /\ (i # 2 => i - 2 \in 1..Len(brief)) BY <1>0, <2>1, <3>1
    <3> QED BY <1>2, <2>1, <3>1, <3>2
  <2>2. CASE i = Len(brief) + 1
    <3>1. h = "undo" /\ brief'[i].text = x /\ brief'[i].by = y BY <1>2, <1>4, <2>2
    <3>2. Len(brief) \in 1..Len(brief) /\ i - 1 = Len(brief) /\ i - 2 = Len(brief) - 1 /\ i > 1
      BY <1>0, <2>2, <3>1
    <3>3. brief'[i - 1].how = "auto" /\ brief'[i - 1].by = y BY <1>2, <3>1, <3>2
    <3>4. CASE i = 2 BY <3>1, <3>2, <3>3, <3>4 DEF TextAt
    <3>5. CASE i # 2
      <4>1. i - 2 \in 1..Len(brief) /\ i - 2 # 0 BY <1>0, <2>2, <3>2, <3>5
      <4> QED BY <1>2, <3>1, <3>2, <3>3, <3>5, <4>1 DEF TextAt
    <3> QED BY <3>4, <3>5
  <2> QED BY <1>3, <2>1, <2>2
<1>5. ASSUME NEW i \in 1..Len(brief'), NEW j \in 1..Len(brief'), brief'[i].how # "edit",
             brief'[i].how = brief'[j].how, brief'[i].by = brief'[j].by
      PROVE  i = j
  <2>1. CASE i \in 1..Len(brief) /\ j \in 1..Len(brief)
    BY <1>2, <1>5, <2>1 DEF UndoRestoresTheBrief
  <2>2. CASE i = Len(brief) + 1 /\ j \in 1..Len(brief) BY <1>2, <1>5, <2>2
  <2>3. CASE j = Len(brief) + 1 /\ i \in 1..Len(brief) BY <1>2, <1>5, <2>3
  <2> QED BY <1>3, <2>1, <2>2, <2>3
<1>6. UndoRestoresTheBrief' BY <1>4, <1>5 DEF UndoRestoresTheBrief
<1> QED BY <1>0, <1>2, <1>6

\* Saving the brief leaves what was given, and what was written, in place.
LEMMA Grown ==
  ASSUME TypeOK, BriefInv, Len(brief') = Len(brief) + 1,
         \A i \in 1..Len(brief) : brief'[i] = brief[i],
         NEW t \in Turns
  PROVE  /\ context'[t] = context[t] =>
              context'[t].rev <= Len(brief') /\ context'[t].text = TextAt(context[t].rev)'
         /\ context'[t] = context[t] /\ proposal[t].stage \in {"automatic", "undone"}
              /\ proposal'[t].applied = proposal[t].applied =>
              LET n == context'[t].rev + 1 IN
              /\ n <= Len(brief') /\ proposal'[t].applied = n
              /\ brief'[n].how = "auto" /\ brief'[n].by = t
<1>0. /\ brief \in Seq(BriefRevision) /\ Len(brief) \in Nat
      /\ context[t].rev \in Nat
  BY LenProperties DEF TypeOK
<1>1. context[t].rev <= Len(brief) /\ context[t].text = TextAt(context[t].rev)
  BY DEF BriefInv, GivenText
<1>2. ASSUME context'[t] = context[t]
      PROVE  context'[t].rev <= Len(brief') /\ context'[t].text = TextAt(context[t].rev)'
  <2>1. CASE context[t].rev = 0 BY <1>0, <1>1, <1>2, <2>1 DEF TextAt
  <2>2. CASE context[t].rev # 0
    <3>1. context[t].rev \in 1..Len(brief) BY <1>0, <1>1, <2>2
    <3> QED BY <1>0, <1>1, <1>2, <2>2, <3>1 DEF TextAt
  <2> QED BY <2>1, <2>2
<1>3. ASSUME context'[t] = context[t], proposal[t].stage \in {"automatic", "undone"},
             proposal'[t].applied = proposal[t].applied
      PROVE  LET n == context'[t].rev + 1 IN
             /\ n <= Len(brief') /\ proposal'[t].applied = n
             /\ brief'[n].how = "auto" /\ brief'[n].by = t
  <2>1. /\ context[t].rev + 1 <= Len(brief) /\ proposal[t].applied = context[t].rev + 1
        /\ brief[context[t].rev + 1].how = "auto" /\ brief[context[t].rev + 1].by = t
    BY <1>3 DEF BriefInv, Automatic
  <2>2. context[t].rev + 1 \in 1..Len(brief) BY <1>0, <2>1
  <2> QED BY <1>0, <1>3, <2>1, <2>2
<1> QED BY <1>2, <1>3

\* A step that leaves the brief and the suggestions as they are.
LEMMA UntouchedBrief ==
  ASSUME TypeOK, BriefInv, UNCHANGED <<brief, proposal>>,
         \A t \in Turns :
           \/ turn'[t] = turn[t] /\ context'[t] = context[t]
           \/ turn'[t].status = "ended" /\ proposal[t].stage = "none" /\ context'[t] = NoContext
           \/ /\ turn'[t].status = "running" /\ proposal[t].stage = "none"
              /\ context'[t] = BriefNow
  PROVE  BriefInv'
<1>0. brief \in Seq(BriefRevision) /\ Len(brief) \in Nat BY LenProperties DEF TypeOK
<1>1. GivenText'
  <2>1. ASSUME NEW t \in Turns
        PROVE  context'[t].rev <= Len(brief) /\ context'[t].text = TextAt(context'[t].rev)
    <3>1. CASE context'[t] = context[t] BY <3>1 DEF BriefInv, GivenText
    <3>2. CASE context'[t] = NoContext BY <1>0, <3>2 DEF NoContext, TextAt
    <3>3. CASE context'[t] = BriefNow
      <4>1. CASE brief = <<>> BY <1>0, <3>3, <4>1 DEF BriefNow, NoContext, TextAt
      <4>2. CASE brief # <<>>
        <5>1. Len(brief) # 0 BY <1>0, <4>2, EmptySeq
        <5> QED BY <1>0, <3>3, <4>2, <5>1 DEF BriefNow, TextAt
      <4> QED BY <4>1, <4>2
    <3> QED BY <3>1, <3>2, <3>3
  <2> QED BY <2>1 DEF GivenText, TextAt
<1>2. Automatic' BY DEF BriefInv, Automatic
<1>3. Writers' BY DEF BriefInv, Writers, Writer
<1>4. OnlyEnded' BY DEF BriefInv, OnlyEnded
<1>5. UndoRestoresTheBrief' BY DEF BriefInv, UndoRestoresTheBrief
<1> QED BY <1>1, <1>2, <1>3, <1>4, <1>5 DEF BriefInv

\* A suggestion is put aside for a review, or dismissed.
LEMMA SetAside ==
  ASSUME TypeOK, BriefInv, UNCHANGED brief, NEW t \in Turns,
         proposal[t].stage \in {"none", "pending"}, proposal'[t].stage \in {"pending", "dismissed"},
         turn'[t].status = "ended",
         context'[t] = context[t],
         \A u \in Turns : u # t =>
           turn'[u] = turn[u] /\ context'[u] = context[u] /\ proposal'[u] = proposal[u]
  PROVE  BriefInv'
<1>0. \A u \in Turns : context'[u] = context[u] OBVIOUS
<1>1. GivenText' BY <1>0 DEF BriefInv, GivenText, TextAt
<1>2. Automatic' BY <1>0 DEF BriefInv, Automatic
<1>3. Writers'
  <2>1. ASSUME NEW i \in 1..Len(brief), brief[i].how # "edit" PROVE Writer(i)'
    <3>1. PICK u \in Turns :
            /\ brief[i].by = u
            /\ brief[i].how = "auto" => proposal[u].stage \in {"automatic", "undone"}
            /\ brief[i].how = "apply" => proposal[u].stage = "applied"
            /\ brief[i].how = "undo" => proposal[u].stage = "undone"
      BY <2>1 DEF BriefInv, Writers, Writer
    <3>2. brief[i].how \in {"auto", "apply", "undo"}
      <4>1. brief[i] \in BriefRevision BY ElementOfSeq DEF TypeOK
      <4> QED BY <2>1, <4>1 DEF BriefRevision
    <3>3. u # t BY <3>1, <3>2
    <3> QED BY <3>1, <3>3 DEF Writer
  <2> QED BY <2>1 DEF Writers, Writer
<1>4. OnlyEnded' BY <1>0 DEF BriefInv, OnlyEnded
<1>5. UndoRestoresTheBrief' BY DEF BriefInv, UndoRestoresTheBrief
<1> QED BY <1>1, <1>2, <1>3, <1>4, <1>5 DEF BriefInv

\* A suggestion is saved or undone: the other responses keep theirs.
LEMMA SavedFor ==
  ASSUME TypeOK, BriefInv, NEW t \in Turns, NEW e \in Nat, NEW x \in Nat,
         NEW h \in {"auto", "apply", "undo"}, SaveBrief(e, e, x, h, t),
         proposal' = [proposal EXCEPT ![t] = proposal'[t]],
         \A u \in Turns : context'[u] = context[u] /\ (u # t => turn'[u] = turn[u]),
         turn'[t].status = "ended",
         h = "auto" => /\ proposal[t].stage = "none" /\ e = context[t].rev
                       /\ proposal'[t] = [stage |-> "automatic", applied |-> Len(brief) + 1],
         h = "apply" => /\ proposal[t].stage = "pending" /\ proposal'[t].stage = "applied",
         h = "undo" => /\ proposal[t].stage = "automatic" /\ proposal'[t].stage = "undone"
                       /\ proposal'[t].applied = proposal[t].applied
                       /\ e = proposal[t].applied /\ x = context[t].text
  PROVE  BriefInv'
<1>0. /\ brief \in Seq(BriefRevision) /\ Len(brief) \in Nat /\ e = Len(brief)
      /\ context[t].rev \in Nat /\ DOMAIN proposal = Turns
  BY LenProperties DEF TypeOK, SaveBrief
<1>1. \A i \in 1..Len(brief) : ~(brief[i].how = h /\ brief[i].by = t)
  BY DEF BriefInv, Writers, Writer
<1>2. h = "undo" => /\ Len(brief) >= 1 /\ brief[Len(brief)].how = "auto"
                    /\ brief[Len(brief)].by = t /\ x = TextAt(Len(brief) - 1)
  <2> SUFFICES ASSUME h = "undo"
               PROVE  /\ Len(brief) >= 1 /\ brief[Len(brief)].how = "auto"
                      /\ brief[Len(brief)].by = t /\ x = TextAt(Len(brief) - 1)
    OBVIOUS
  <2>1. /\ Len(brief) = context[t].rev + 1
        /\ brief[context[t].rev + 1].how = "auto" /\ brief[context[t].rev + 1].by = t
    BY <1>0 DEF BriefInv, Automatic
  <2>2. x = TextAt(context[t].rev) BY DEF BriefInv, GivenText
  <2>3. Len(brief) - 1 = context[t].rev /\ Len(brief) >= 1 BY <1>0, <2>1
  <2> QED BY <2>1, <2>2, <2>3
<1>3. /\ Len(brief') = Len(brief) + 1
      /\ brief'[Len(brief) + 1] = [base |-> e, text |-> x, how |-> h, by |-> t]
      /\ (\A i \in 1..Len(brief) : brief'[i] = brief[i])
      /\ UndoRestoresTheBrief'
  BY <1>1, <1>2, Saved DEF BriefInv
<1>4. \A u \in Turns : u # t => proposal'[u] = proposal[u] BY <1>0
<1>5. GivenText'
  <2>1. \A u \in Turns : context'[u].rev <= Len(brief') /\ context'[u].text = TextAt(context[u].rev)'
    BY <1>3, Grown
  <2> QED BY <2>1 DEF GivenText
<1>6. Automatic'
  <2>1. ASSUME NEW u \in Turns, proposal'[u].stage \in {"automatic", "undone"}
        PROVE  LET n == context'[u].rev + 1 IN
               /\ n <= Len(brief') /\ proposal'[u].applied = n
               /\ brief'[n].how = "auto" /\ brief'[n].by = u
    <3>1. CASE u # t BY <1>3, <1>4, <2>1, <3>1, Grown
    <3>2. CASE u = t /\ h = "undo" BY <1>3, <2>1, <3>2, Grown
    <3>3. CASE u = t /\ h = "auto" BY <1>0, <1>3, <3>3
    <3>4. CASE u = t /\ h = "apply" BY <2>1, <3>4
    <3> QED BY <3>1, <3>2, <3>3, <3>4
  <2> QED BY <2>1 DEF Automatic
<1>7. Writers'
  <2>1. ASSUME NEW i \in 1..Len(brief) PROVE Writer(i)'
    <3>1. brief'[i] = brief[i] BY <1>3
    <3>2. CASE brief[i].how = "edit" BY <3>1, <3>2 DEF Writer
    <3>3. CASE brief[i].how # "edit"
      <4>1. PICK u \in Turns :
              /\ brief[i].by = u
              /\ brief[i].how = "auto" => proposal[u].stage \in {"automatic", "undone"}
              /\ brief[i].how = "apply" => proposal[u].stage = "applied"
              /\ brief[i].how = "undo" => proposal[u].stage = "undone"
        BY <3>3 DEF BriefInv, Writers, Writer
      <4>2. brief[i].how \in {"auto", "apply", "undo"}
        <5>1. brief[i] \in BriefRevision BY <1>0, ElementOfSeq
        <5> QED BY <3>3, <5>1 DEF BriefRevision
      <4>3. CASE u # t BY <1>4, <3>1, <4>1, <4>3 DEF Writer
      <4>4. CASE u = t
        <5>1. h = "undo" /\ brief[i].how = "auto" BY <4>1, <4>2, <4>4
        <5> QED BY <3>1, <4>1, <4>4, <5>1 DEF Writer
      <4> QED BY <4>3, <4>4
    <3> QED BY <3>2, <3>3
  <2>2. ASSUME NEW i, i = Len(brief) + 1 PROVE Writer(i)'
    <3>1. brief'[i].how = h /\ brief'[i].by = t BY <1>3, <2>2
    <3>2. /\ h = "auto" => proposal'[t].stage = "automatic"
          /\ h = "apply" => proposal'[t].stage = "applied"
          /\ h = "undo" => proposal'[t].stage = "undone"
      OBVIOUS
    <3> QED BY <3>1, <3>2 DEF Writer
  <2>3. \A i \in 1..Len(brief') : i \in 1..Len(brief) \/ i = Len(brief) + 1 BY <1>0, <1>3
  <2>4. ASSUME NEW i \in 1..Len(brief') PROVE Writer(i)'
    <3>1. CASE i \in 1..Len(brief) BY <2>1, <3>1
    <3>2. CASE i = Len(brief) + 1 BY <2>2, <3>2
    <3> QED BY <2>3, <3>1, <3>2
  <2> QED BY <2>4 DEF Writers
<1>8. OnlyEnded' BY <1>4 DEF BriefInv, OnlyEnded
<1> QED BY <1>3, <1>5, <1>6, <1>7, <1>8 DEF BriefInv

\* Every action keeps the brief's invariant.
LEMMA BriefStep == ASSUME TypeOK, BriefInv, [Next]_vars PROVE BriefInv'
<1>0. /\ brief \in Seq(BriefRevision) /\ Len(brief) \in Nat
      /\ DOMAIN turn = Turns /\ DOMAIN context = Turns /\ DOMAIN proposal = Turns
      /\ \A t \in Turns : context[t].rev \in Nat /\ context[t].text \in Nat
  BY LenProperties DEF TypeOK
<1>1. ASSUME UNCHANGED <<brief, turn, context, proposal>> PROVE BriefInv'
  BY <1>1, UntouchedBrief
<1>2. ASSUME NEW t \in Turns, NEW a \in 0..source.no, Begin(t, a) PROVE BriefInv'
  <2>1. proposal[t].stage = "none" BY <1>2 DEF Begin, BriefInv, OnlyEnded
  <2>2. /\ turn'[t].status = "running" /\ context'[t] = BriefNow
        /\ \A u \in Turns \ {t} : turn'[u] = turn[u] /\ context'[u] = context[u]
    BY <1>0, <1>2 DEF Begin
  <2>3. UNCHANGED <<brief, proposal>> BY <1>2 DEF Begin
  <2> QED BY <2>1, <2>2, <2>3, UntouchedBrief
<1>3. ASSUME NEW t \in Turns, Stop(t) PROVE BriefInv'
  <2>1. proposal[t].stage = "none" BY <1>3 DEF Stop, Running, BriefInv, OnlyEnded
  <2>2. /\ turn'[t].status = "ended" /\ context'[t] = NoContext
        /\ \A u \in Turns \ {t} : turn'[u] = turn[u] /\ context'[u] = context[u]
    BY <1>0, <1>3 DEF Stop, Ended
  <2>3. UNCHANGED <<brief, proposal>> BY <1>3 DEF Stop
  <2> QED BY <2>1, <2>2, <2>3, UntouchedBrief
<1>4. ASSUME NEW t \in Turns, NEW g \in Suggestions, Complete(t, g) PROVE BriefInv'
  <2>1. proposal[t].stage = "none" BY <1>4 DEF Complete, Running, BriefInv, OnlyEnded
  <2>2. /\ turn'[t].status = "ended"
        /\ \A u \in Turns \ {t} : turn'[u] = turn[u]
    BY <1>0, <1>4 DEF Complete, Ended
  <2>3. CompleteBrief(t, g) BY <1>4 DEF Complete
  <2>4. CASE g = "none"
    <3>1. /\ context'[t] = NoContext
          /\ \A u \in Turns \ {t} : context'[u] = context[u]
      BY <1>0, <1>4, <2>4 DEF Complete
    <3>2. UNCHANGED <<brief, proposal>> BY <2>3, <2>4 DEF CompleteBrief
    <3> QED BY <2>1, <2>2, <3>1, <3>2, UntouchedBrief
  <2>5. CASE g # "none" /\ Deferred(t, g)
    <3>1. /\ proposal' = [proposal EXCEPT ![t] = [stage |-> "pending", applied |-> 0]]
          /\ UNCHANGED brief
      BY <2>3, <2>5 DEF CompleteBrief
    <3>2. /\ proposal'[t].stage = "pending"
          /\ \A u \in Turns \ {t} : proposal'[u] = proposal[u]
      BY <1>0, <3>1
    <3>3. context' = context BY <1>4, <2>5 DEF Complete
    <3>4. UNCHANGED brief BY <3>1
    <3>5. /\ proposal[t].stage \in {"none", "pending"} /\ proposal'[t].stage \in {"pending", "dismissed"}
          /\ context'[t] = context[t]
          /\ \A u \in Turns : u # t =>
               turn'[u] = turn[u] /\ context'[u] = context[u] /\ proposal'[u] = proposal[u]
      BY <2>1, <2>2, <3>2, <3>3
    <3> QED BY <2>2, <3>4, <3>5, SetAside
  <2>6. CASE g # "none" /\ ~Deferred(t, g)
    <3>1. /\ SaveBrief(context[t].rev, context[t].rev, Len(brief) + 1, "auto", t)
          /\ proposal' = [proposal EXCEPT ![t] =
               [stage |-> "automatic", applied |-> Len(brief) + 1]]
      BY <2>3, <2>6 DEF CompleteBrief
    <3>2. /\ proposal'[t] = [stage |-> "automatic", applied |-> Len(brief) + 1]
          /\ proposal' = [proposal EXCEPT ![t] = proposal'[t]]
      BY <1>0, <3>1
    <3>3. context' = context BY <1>4, <2>6 DEF Complete
    <3>4. Len(brief) + 1 \in Nat BY <1>0
    <3> HIDE DEF SaveBrief
    <3> QED BY <1>0, <2>1, <2>2, <3>1, <3>2, <3>3, <3>4, SavedFor
  <2> QED BY <2>4, <2>5, <2>6
<1>5. ASSUME NEW t \in Turns, ApplyBrief(t) PROVE BriefInv'
  <2>1. /\ proposal[t].stage = "pending" /\ UNCHANGED <<turn, context>>
        /\ SaveBrief(context[t].rev, context[t].rev, Len(brief) + 1, "apply", t)
        /\ proposal' = [proposal EXCEPT ![t] = [stage |-> "applied", applied |-> Len(brief) + 1]]
    BY <1>5 DEF ApplyBrief
  <2>2. proposal'[t].stage = "applied" /\ proposal' = [proposal EXCEPT ![t] = proposal'[t]]
    BY <1>0, <2>1
  <2>3. turn'[t].status = "ended" BY <2>1 DEF BriefInv, OnlyEnded
  <2>4. Len(brief) + 1 \in Nat BY <1>0
  <2> QED BY <1>0, <2>1, <2>2, <2>3, <2>4, SavedFor
<1>6. ASSUME NEW t \in Turns, DismissBrief(t) PROVE BriefInv'
  <2>1. /\ proposal[t].stage = "pending" /\ UNCHANGED <<brief, turn, context>>
        /\ proposal' = [proposal EXCEPT ![t] = [@ EXCEPT !.stage = "dismissed"]]
    BY <1>6 DEF DismissBrief
  <2>2. /\ proposal'[t].stage = "dismissed"
        /\ \A u \in Turns \ {t} : proposal'[u] = proposal[u]
    BY <2>1 DEF TypeOK
  <2>3. turn'[t].status = "ended" BY <2>1 DEF BriefInv, OnlyEnded
  <2> QED BY <2>1, <2>2, <2>3, SetAside
<1>7. ASSUME NEW t \in Turns, UndoBrief(t) PROVE BriefInv'
  <2>1. /\ proposal[t].stage = "automatic" /\ UNCHANGED <<turn, context>>
        /\ SaveBrief(proposal[t].applied, proposal[t].applied, context[t].text, "undo", t)
        /\ proposal' = [proposal EXCEPT ![t] = [@ EXCEPT !.stage = "undone"]]
    BY <1>7 DEF UndoBrief
  <2>2. /\ proposal'[t].stage = "undone" /\ proposal'[t].applied = proposal[t].applied
        /\ proposal' = [proposal EXCEPT ![t] = proposal'[t]]
    BY <2>1 DEF TypeOK
  <2>3. turn'[t].status = "ended" BY <2>1 DEF BriefInv, OnlyEnded
  <2>4. proposal[t].applied \in Nat BY DEF TypeOK
  <2> QED BY <1>0, <2>1, <2>2, <2>3, <2>4, SavedFor
<1>8. ASSUME NEW w \in Windows, EditBrief(w) PROVE BriefInv'
  <2>1. /\ SaveBrief(seen[w].brief, seen[w].brief, Len(brief) + 1, "edit", "window")
        /\ UNCHANGED <<turn, context, proposal>>
    BY <1>8 DEF EditBrief
  <2>2. seen[w].brief \in Nat /\ Len(brief) + 1 \in Nat BY <1>0 DEF TypeOK
  <2>3. /\ Len(brief') = Len(brief) + 1
        /\ brief'[Len(brief) + 1].how = "edit"
        /\ (\A i \in 1..Len(brief) : brief'[i] = brief[i])
        /\ UndoRestoresTheBrief'
    <3> DEFINE h == "edit"
               y == "window"
    <3>1. /\ h \in {"edit", "auto", "apply", "undo"} /\ y \in Turns \cup {"window"}
          /\ SaveBrief(seen[w].brief, seen[w].brief, Len(brief) + 1, h, y)
          /\ UndoRestoresTheBrief
      BY <2>1 DEF BriefInv
    <3>2. h = "edit" /\ h # "undo" OBVIOUS
    <3> HIDE DEF h, y
    <3>3. /\ Len(brief') = Len(brief) + 1
          /\ brief'[Len(brief) + 1] = [base |-> seen[w].brief, text |-> Len(brief) + 1,
                                       how |-> h, by |-> y]
          /\ (\A i \in 1..Len(brief) : brief'[i] = brief[i])
          /\ UndoRestoresTheBrief'
      BY <2>2, <3>1, <3>2, Saved
    <3> QED BY <3>2, <3>3
  <2>4. GivenText'
    <3>1. \A t \in Turns : context'[t].rev <= Len(brief') /\ context'[t].text = TextAt(context[t].rev)'
      BY <2>1, <2>3, Grown
    <3> QED BY <3>1 DEF GivenText
  <2>5. Automatic'
    <3>1. ASSUME NEW t \in Turns, proposal'[t].stage \in {"automatic", "undone"}
          PROVE  LET n == context'[t].rev + 1 IN
                 /\ n <= Len(brief') /\ proposal'[t].applied = n
                 /\ brief'[n].how = "auto" /\ brief'[n].by = t
      BY <2>1, <2>3, <3>1, Grown
    <3> QED BY <3>1 DEF Automatic
  <2>6. Writers'
    <3>1. ASSUME NEW i \in 1..Len(brief') PROVE Writer(i)'
      <4>1. i \in 1..Len(brief) \/ i = Len(brief) + 1 BY <1>0, <2>3
      <4>2. CASE i \in 1..Len(brief) BY <2>1, <2>3, <4>2 DEF BriefInv, Writers, Writer
      <4>3. CASE i = Len(brief) + 1 BY <2>3, <4>3 DEF Writer
      <4> QED BY <4>1, <4>2, <4>3
    <3> QED BY <3>1 DEF Writers
  <2>7. OnlyEnded' BY <2>1 DEF BriefInv, OnlyEnded
  <2> QED BY <2>3, <2>4, <2>5, <2>6, <2>7 DEF BriefInv
<1>9. CASE \E t \in Turns : Response(t)
  <2>1. PICK t \in Turns : Response(t) BY <1>9
  <2> QED BY <1>1, <1>2, <1>3, <1>4, <2>1
          DEF Response, ReadSource, ReplaceOriginal, ReadItem, ReplaceItem
<1>10. CASE \E w \in Windows : Window(w)
  <2>1. PICK w \in Windows : Window(w) BY <1>10
  <2> QED BY <1>1, <1>8, <2>1 DEF Window, Open, EditItem, ReviewItem
<1>11. CASE Manage
  <2> QED BY <1>1, <1>5, <1>6, <1>7, <1>11
          DEF Manage, TrashSource, RestoreSource, TrashItem, RestoreItem, ReviseSource,
              UndoImport
<1>12. CASE UNCHANGED vars BY <1>1, <1>12 DEF vars
<1> QED BY <1>9, <1>10, <1>11, <1>12 DEF Next

LEMMA BriefInvariant == Spec => []BriefInv
BY TypeCorrect, InitBrief, BriefStep, PTL DEF Spec

\* UndoRestoresTheBrief for every run: undoBriefUpdate gives back what the
\* response was given, and nothing of a response is saved or undone twice.
THEOREM UndoRestores == Spec => []UndoRestoresTheBrief
<1>1. BriefInv => UndoRestoresTheBrief BY DEF BriefInv
<1> QED BY <1>1, BriefInvariant, PTL
=============================================================================
