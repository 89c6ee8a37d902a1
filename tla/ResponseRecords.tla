--------------------------- MODULE ResponseRecords ---------------------------
(***************************************************************************)
(* What running responses and several windows do to the same records: a    *)
(* matter's brief (matter_briefs), a practice item (knowledge_revisions)   *)
(* and the original file it was imported from (source_revisions), each a   *)
(* sequence of immutable revisions, and Trash (the lifecycle tables).      *)
(*                                                                         *)
(* A response pins the library when it begins (contextLibrary), reads      *)
(* revisions through its tools, stages a replacement of the practice item  *)
(* and an update of the brief, and writes both when it completes, in one   *)
(* transaction, unless what it started from has changed.  Meanwhile the    *)
(* windows edit, review, put away and restore the same records, with the   *)
(* revision that each window last loaded.                                  *)
(*                                                                         *)
(* A text is named by the revision that introduced it.  Every response     *)
(* belongs to its own conversation, about the one matter.                  *)
(***************************************************************************)
EXTENDS Integers, Sequences

CONSTANTS
  Turns,         \* the responses
  Windows,       \* the windows of the workspace
  MaxRevisions,  \* bound: revisions of practice item and brief together
  MaxVersions    \* bound: revisions of the original

ASSUME RecordsAssumption ==
  MaxRevisions \in Nat \ {0} /\ MaxVersions \in Nat \ {0}

VARIABLES
  origin,    \* how the practice item came in: "plugin" or "staged" import
  source,    \* the original: its latest revision and lifecycle
  item,      \* the practice item: its revisions
  itemState, \* and lifecycle
  brief,     \* the revisions of the matter's brief
  seen,      \* per window: the revisions of item and brief that it loaded
  turn,      \* per response: status, attached revision, the pinned library
  read,      \* per response: the revision of the original, and of the item, that
             \* it read last, 0 for none
  context,   \* per response: the brief given to it when it began
  update,    \* per response: the staged replacement of the practice item
  proposal,  \* per response: its update of the brief, once it has completed
  used       \* whether any response, ended ones included, was given or has read
             \* the original

vars == <<origin, source, item, itemState, brief, seen, turn, read, context,
          update, proposal, used>>

ItemStatus == {"pending", "approved", "rejected"}

(* base: the revision whose text the writer had before it, 0 for the       *)
(* original's; orig: the revision of the original, when that was the text  *)
ItemRevision == [base: Nat, orig: Nat, status: ItemStatus]

(* text: the revision that introduced this content (notes and status), 0   *)
(* for the matter's summary before any brief; how: "edit" by a window,     *)
(* "auto" by a completion, "apply" by a review, "undo"; by: the response   *)
BriefRevision ==
  [base: Nat, text: Nat, how: {"edit", "auto", "apply", "undo"},
   by: Turns \cup {"window"}]

Entry == [kind: {"item", "source"}, rev: Nat]
NoContext == [rev |-> 0, text |-> 0]
NothingRead == [source |-> 0, item |-> 0]
NoUpdate == [expected |-> 0, base |-> 0, orig |-> 0]
NoProposal == [stage |-> "none", applied |-> 0]

-----------------------------------------------------------------------------
(* The records *)

Approved == {n \in 1..Len(item) : item[n].status = "approved"}

\* active: the latest approved revision, if there is one
Active == {n \in Approved : \A m \in Approved : m <= n}

\* DEFECT: any rejection withdraws the original.
WithdrawnByAny == \E n \in 1..Len(item) : item[n].status = "rejected"
\* The first review of the imported revision rejected it.
Withdrawn == Len(item) >= 2 /\ item[2].status = "rejected"

SourceIsKept == source.state = "active"
ItemIsKept == itemState = "active"

\* contextLibrary: the entry that offers the item to responses, if any
Library ==
  IF origin # "plugin" \/ ~ItemIsKept THEN {}
  ELSE IF Approved # {} THEN {[kind |-> "item", rev |-> n] : n \in Active}
  ELSE IF ~SourceIsKept \/ Withdrawn THEN {}
  ELSE {[kind |-> "source", rev |-> source.no]}

\* The brief as matterContext shows it: the summary without a revision.
BriefNow ==
  IF brief = <<>> THEN NoContext
  ELSE [rev |-> Len(brief), text |-> brief[Len(brief)].text]

Running(t) == turn[t].status = "running"

\* DEFECT: only attached documents count as used.
SourceAttached == \E t \in Turns : Running(t) /\ turn[t].attached # 0
\* recordImpact's inUse
SourceInUse ==
  \E t \in Turns : Running(t) /\ (turn[t].attached # 0 \/ read[t].source # 0)
ItemInUse ==
  \E t \in Turns : Running(t) /\ (turn[t].library # {} \/ read[t].item # 0)

\* saveMatterBrief: a new revision, refused unless the expected one is the
\* latest.
SaveBrief(expected, base, text, how, by) ==
  /\ expected = Len(brief)
  /\ Len(item) + Len(brief) < MaxRevisions
  /\ brief' = Append(brief, [base |-> base, text |-> text, how |-> how, by |-> by])

\* reviseKnowledge: a new revision, refused in Trash and unless the expected
\* one is the latest.
ReviseItem(expected, base, orig, status) ==
  /\ ItemIsKept
  /\ expected = Len(item)
  /\ Len(item) + Len(brief) < MaxRevisions
  /\ item' = Append(item, [base |-> base, orig |-> orig, status |-> status])

-----------------------------------------------------------------------------
Init ==
  /\ origin \in {"plugin", "staged"}
  /\ source = [no |-> 1, state |-> "active"]
  /\ item = <<[base |-> 0, orig |-> 1, status |-> "pending"]>>
  /\ itemState = "active"
  /\ brief = <<>>
  /\ seen = [w \in Windows |-> [item |-> 1, brief |-> 0]]
  /\ turn = [t \in Turns |-> [status |-> "new", attached |-> 0, library |-> {}]]
  /\ read = [t \in Turns |-> NothingRead]
  /\ context = [t \in Turns |-> NoContext]
  /\ update = [t \in Turns |-> NoUpdate]
  /\ proposal = [t \in Turns |-> NoProposal]
  /\ used = FALSE

(* A response *)

\* start, begin, and the first stretch of run, which nothing else comes into:
\* the message is saved with its attached document, refused when that is in
\* Trash; the library is pinned for it and the brief is read.
Begin(t, a) ==
  /\ turn[t].status = "new"
  /\ a # 0 => SourceIsKept
  /\ turn' = [turn EXCEPT ![t] =
       [status |-> "running", attached |-> a, library |-> Library]]
  /\ context' = [context EXCEPT ![t] = BriefNow]
  /\ used' = (used \/ a # 0)
  /\ UNCHANGED <<origin, source, item, itemState, brief, seen, read, update,
                 proposal>>

\* resolve: which revisions the tools may read.  None in Trash; else what was
\* attached, what the library names, what was read, and the current ones.
MayReadSource(t, n) ==
  /\ SourceIsKept
  /\ \/ n = turn[t].attached
     \/ [kind |-> "source", rev |-> n] \in turn[t].library
     \/ n = read[t].source
     \/ n = source.no
MayReadItem(t, n) ==
  /\ ItemIsKept
  /\ \/ [kind |-> "item", rev |-> n] \in turn[t].library
     \/ n = read[t].item
     \/ n \in Active

\* counsel_read_record, up to the end of the text
ReadSource(t, n) ==
  /\ Running(t)
  /\ MayReadSource(t, n)
  /\ read' = [read EXCEPT ![t] = [@ EXCEPT !.source = n]]
  /\ used' = TRUE
  /\ UNCHANGED <<origin, source, item, itemState, brief, seen, turn, context,
                 update, proposal>>

ReadItem(t, n) ==
  /\ Running(t)
  /\ MayReadItem(t, n)
  /\ read' = [read EXCEPT ![t] = [@ EXCEPT !.item = n]]
  /\ UNCHANGED <<origin, source, item, itemState, brief, seen, turn, context,
                 update, proposal, used>>

LatestIsRejected == item[Len(item)].status = "rejected"

\* counsel_propose_knowledge with replaces: the approved revision, read as a
\* whole, without an edit that waits for review.
ReplaceItem(t, n) ==
  /\ Running(t)
  /\ MayReadItem(t, n)
  /\ n \in Active
  /\ n = Len(item) \/ LatestIsRejected
  /\ n = read[t].item
  /\ update' = [update EXCEPT ![t] = [expected |-> Len(item), base |-> n, orig |-> 0]]
  /\ UNCHANGED <<origin, source, item, itemState, brief, seen, turn, read,
                 context, proposal, used>>

\* The same for an item that has no approved revision: its imported original,
\* which the pinned library and the present one must both name.
ReplaceOriginal(t, n) ==
  LET entry == [kind |-> "source", rev |-> n] IN
  /\ Running(t)
  /\ MayReadSource(t, n)
  /\ entry \in turn[t].library
  /\ entry \in Library
  /\ Len(item) = 1 \/ LatestIsRejected
  /\ n = read[t].source
  /\ update' = [update EXCEPT ![t] = [expected |-> Len(item), base |-> 0, orig |-> n]]
  /\ UNCHANGED <<origin, source, item, itemState, brief, seen, turn, read,
                 context, proposal, used>>

\* DEFECT: the original is not compared.
UpdateIsCurrentItem(u) == u.expected = Len(item)
\* The replacement lands only on the revisions it was staged against.
UpdateIsCurrent(u) ==
  /\ u.expected = Len(item)
  /\ u.orig # 0 => u.orig = source.no
CompleteUpdate(t) ==
  LET u == update[t] IN
  IF u # NoUpdate /\ UpdateIsCurrent(u)
    THEN ReviseItem(u.expected, u.base, u.orig, "pending")
    ELSE UNCHANGED item

\* What counsel_propose_matter_brief may have staged before the end: it only
\* depends on the brief given to the response.  "reviewed": the model or the
\* user's words ask for a review, or the suggestion changes the status.
Suggestions == {"none", "routine", "reviewed"}

\* prepareCompletedBrief's deferredReason: concurrent-change, status-change
\* or requested-review.
Deferred(t, suggestion) ==
  context[t].rev # Len(brief) \/ suggestion = "reviewed"

\* prepareCompletedBrief: a routine update saves itself, others wait.
CompleteBrief(t, suggestion) ==
  \/ suggestion = "none" /\ UNCHANGED <<brief, proposal>>
  \/ /\ suggestion # "none" /\ Deferred(t, suggestion)
     /\ proposal' = [proposal EXCEPT ![t] = [stage |-> "pending", applied |-> 0]]
     /\ UNCHANGED brief
  \/ /\ suggestion # "none" /\ ~Deferred(t, suggestion)
     /\ SaveBrief(context[t].rev, context[t].rev, Len(brief) + 1, "auto", t)
     /\ proposal' = [proposal EXCEPT ![t] =
          [stage |-> "automatic", applied |-> Len(brief) + 1]]

\* Of an ended response the model keeps only what is still looked at: the
\* suggestion it completed with, the brief that it was given, and used.
Ended == [status |-> "ended", attached |-> 0, library |-> {}]

\* run's completion: one transaction, all or nothing
Complete(t, suggestion) ==
  /\ Running(t)
  /\ CompleteUpdate(t)
  /\ CompleteBrief(t, suggestion)
  /\ turn' = [turn EXCEPT ![t] = Ended]
  /\ read' = [read EXCEPT ![t] = NothingRead]
  /\ update' = [update EXCEPT ![t] = NoUpdate]
  /\ context' = IF suggestion = "none" THEN [context EXCEPT ![t] = NoContext] ELSE context
  /\ UNCHANGED <<origin, source, itemState, seen, used>>

\* Stopped, failed or interrupted: what was staged is dropped.
Stop(t) ==
  /\ Running(t)
  /\ turn' = [turn EXCEPT ![t] = Ended]
  /\ read' = [read EXCEPT ![t] = NothingRead]
  /\ update' = [update EXCEPT ![t] = NoUpdate]
  /\ context' = [context EXCEPT ![t] = NoContext]
  /\ UNCHANGED <<origin, source, item, itemState, brief, seen, proposal,
                 used>>

-----------------------------------------------------------------------------
(* The windows *)

\* A window loads the practice item and the brief.
Open(w) ==
  /\ seen' = [seen EXCEPT ![w] = [item |-> Len(item), brief |-> Len(brief)]]
  /\ UNCHANGED <<origin, source, item, itemState, brief, turn, read, context,
                 update, proposal, used>>

\* changeRecord: refused while a response uses the record
TrashSource ==
  /\ SourceIsKept /\ ~SourceInUse
  /\ source' = [source EXCEPT !.state = "trashed"]
  /\ UNCHANGED <<origin, item, itemState, brief, seen, turn, read, context,
                 update, proposal, used>>
RestoreSource ==
  /\ ~SourceIsKept /\ ~SourceInUse
  /\ source' = [source EXCEPT !.state = "active"]
  /\ UNCHANGED <<origin, item, itemState, brief, seen, turn, read, context,
                 update, proposal, used>>
TrashItem ==
  /\ ItemIsKept /\ ~ItemInUse
  /\ itemState' = "trashed"
  /\ UNCHANGED <<origin, source, item, brief, seen, turn, read, context,
                 update, proposal, used>>
RestoreItem ==
  /\ ~ItemIsKept /\ ~ItemInUse
  /\ itemState' = "active"
  /\ UNCHANGED <<origin, source, item, brief, seen, turn, read, context,
                 update, proposal, used>>

\* reviseSource: a new version of the file, also while a response reads it
ReviseSource ==
  /\ SourceIsKept
  /\ source.no < MaxVersions
  /\ source' = [source EXCEPT !.no = @ + 1]
  /\ UNCHANGED <<origin, item, itemState, brief, seen, turn, read, context,
                 update, proposal, used>>

\* proposeKnowledgeUpdate: an edit of the revision the window loaded.  Sent
\* again, the same edit changes nothing.
EditItem(w) ==
  /\ ReviseItem(seen[w].item, seen[w].item, 0, "pending")
  /\ UNCHANGED <<origin, source, itemState, brief, seen, turn, read, context,
                 update, proposal, used>>

\* reviewKnowledge: the outcome is a new revision with the reviewed text.
ReviewItem(w, outcome) ==
  /\ seen[w].item = Len(item)
  /\ item[Len(item)].status = "pending"
  /\ ReviseItem(seen[w].item, Len(item), 0, outcome)
  /\ UNCHANGED <<origin, source, itemState, brief, seen, turn, read, context,
                 update, proposal, used>>

EditBrief(w) ==
  /\ SaveBrief(seen[w].brief, seen[w].brief, Len(brief) + 1, "edit", "window")
  /\ UNCHANGED <<origin, source, item, itemState, seen, turn, read, context,
                 update, proposal, used>>

\* reviewBriefProposal: the same outcome again changes nothing, the other one
\* is refused.
ApplyBrief(t) ==
  /\ proposal[t].stage = "pending"
  /\ SaveBrief(context[t].rev, context[t].rev, Len(brief) + 1, "apply", t)
  /\ proposal' = [proposal EXCEPT ![t] =
       [stage |-> "applied", applied |-> Len(brief) + 1]]
  /\ UNCHANGED <<origin, source, item, itemState, seen, turn, read, context,
                 update, used>>
DismissBrief(t) ==
  /\ proposal[t].stage = "pending"
  /\ proposal' = [proposal EXCEPT ![t] = [@ EXCEPT !.stage = "dismissed"]]
  /\ UNCHANGED <<origin, source, item, itemState, brief, seen, turn, read,
                 context, update, used>>

\* DEFECT: undoes whatever is the latest.
UndoLatest(t) ==
  /\ proposal[t].stage = "automatic"
  /\ SaveBrief(Len(brief), Len(brief), context[t].text, "undo", t)
  /\ proposal' = [proposal EXCEPT ![t] = [@ EXCEPT !.stage = "undone"]]
  /\ UNCHANGED <<origin, source, item, itemState, seen, turn, read, context,
                 update, used>>
\* undoBriefUpdate: only an automatic update, once, and only while its
\* revision is the latest; the brief given to the response comes back.
UndoBrief(t) ==
  /\ proposal[t].stage = "automatic"
  /\ SaveBrief(proposal[t].applied, proposal[t].applied, context[t].text, "undo", t)
  /\ proposal' = [proposal EXCEPT ![t] = [@ EXCEPT !.stage = "undone"]]
  /\ UNCHANGED <<origin, source, item, itemState, seen, turn, read, context,
                 update, used>>

\* undoImport, importUndoPreview: an unchanged addition of a staged import that
\* no response has used is put away, and its practice item withdrawn.
UndoImport ==
  /\ origin = "staged"
  /\ source.no = 1 /\ SourceIsKept
  /\ Len(item) = 1 /\ item[1].status = "pending"
  /\ ~used
  /\ ReviseItem(Len(item), Len(item), 0, "rejected")
  /\ source' = [source EXCEPT !.state = "undone"]
  /\ UNCHANGED <<origin, itemState, brief, seen, turn, read, context, update,
                 proposal, used>>

Response(t) ==
  \/ \E a \in 0..source.no : Begin(t, a)
  \/ \E n \in 1..source.no : ReadSource(t, n) \/ ReplaceOriginal(t, n)
  \/ \E n \in 1..Len(item) : ReadItem(t, n) \/ ReplaceItem(t, n)
  \/ \E suggestion \in Suggestions : Complete(t, suggestion)
  \/ Stop(t)

Window(w) ==
  \/ Open(w)
  \/ EditItem(w)
  \/ \E o \in {"approved", "rejected"} : ReviewItem(w, o)
  \/ EditBrief(w)

Manage ==
  \/ TrashSource \/ RestoreSource \/ TrashItem \/ RestoreItem
  \/ ReviseSource \/ UndoImport
  \/ \E t \in Turns : ApplyBrief(t) \/ DismissBrief(t) \/ UndoBrief(t)

Next == Manage \/ (\E t \in Turns : Response(t)) \/ (\E w \in Windows : Window(w))

Spec == Init /\ [][Next]_vars
-----------------------------------------------------------------------------
TypeOK ==
  /\ origin \in {"plugin", "staged"}
  /\ source \in [no: Nat, state: {"active", "trashed", "undone"}]
  /\ item \in Seq(ItemRevision)
  /\ itemState \in {"active", "trashed"}
  /\ brief \in Seq(BriefRevision)
  /\ seen \in [Windows -> [item: Nat, brief: Nat]]
  /\ turn \in [Turns -> [status: {"new", "running", "ended"},
                         attached: Nat,
                         library: SUBSET Entry]]
  /\ read \in [Turns -> [source: Nat, item: Nat]]
  /\ context \in [Turns -> [rev: Nat, text: Nat]]
  /\ update \in [Turns -> [expected: Nat, base: Nat, orig: Nat]]
  /\ proposal \in [Turns ->
       [stage: {"none", "pending", "automatic", "applied", "dismissed", "undone"},
        applied: Nat]]
  /\ used \in BOOLEAN

\* A record that a running response was given or has read, or whose text it
\* is about to replace, is not in Trash; and an original that the undo of its
\* import put away was never used by any response.  begin, resolve,
\* changeRecord and undoImport each check for the others.
UsedRecordsAreKept ==
  /\ \A t \in Turns : Running(t) =>
       /\ (turn[t].attached # 0 \/ read[t].source # 0) => SourceIsKept
       /\ (turn[t].library # {} \/ read[t].item # 0 \/ update[t] # NoUpdate)
            => ItemIsKept
  /\ source.state = "undone" => ~used

\* Whoever writes a revision of the brief or of the practice item had its
\* predecessor before him, or, for the item, the baseline that remained when
\* the revisions after it were rejected; a replacement of the original's text
\* was made from the original's current version.
NoEditIsLost ==
  [][/\ brief' # brief => brief'[Len(brief')].base = Len(brief)
     /\ item' # item =>
          LET new == item'[Len(item')] IN
          /\ new.orig \in {0, source.no}
          /\ \/ new.base = Len(item)
             \/ /\ Len(item) = 1 \/ LatestIsRejected
                /\ \A n \in new.base + 1 .. Len(item) : item[n].status # "approved"]_vars

\* Undoing an automatic update of the brief gives back exactly the notes and
\* the status that stood before it, and each response's update is saved, and
\* undone, at most once.
UndoRestoresTheBrief ==
  /\ \A i \in 1..Len(brief) : brief[i].how = "undo" =>
       /\ i > 1 /\ brief[i - 1].how = "auto" /\ brief[i - 1].by = brief[i].by
       /\ brief[i].text = (IF i = 2 THEN 0 ELSE brief[i - 2].text)
  /\ \A i, j \in 1..Len(brief) :
       brief[i].how # "edit" /\ brief[i].how = brief[j].how /\ brief[i].by = brief[j].by
         => i = j

\* A proposed edit, and the rejection of one, leave the baseline that the
\* library offers as it was; only an approval, or the rejection of the
\* imported text itself, changes it.
EditsKeepTheBaseline ==
  [][/\ item' # item
     /\ item'[Len(item')].status # "approved"
     /\ ~(Len(item) = 1 /\ item'[2].status = "rejected")
     => Library' = Library]_vars
=============================================================================
