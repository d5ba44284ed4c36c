------------------------------ MODULE Composer ------------------------------
(* Writing mail: the message editors, the operations that save their text   *)
(* to Drafts or hand it to a send queue, and the copies those operations    *)
(* leave in the folders (modest-ui-actions.c, modest-mail-operation.c,      *)
(* widgets/modest-msg-edit-window.c, gtk/modest-gtk-window-mgr.c).          *)
(*                                                                          *)
(* A message is made in a thread and added to its folder by another; the    *)
(* editor may be edited, saved again or closed before either answers, and   *)
(* answers come in any order.  Texts are numbered: what a text says does    *)
(* not matter, only which text a message carries.                           *)
EXTENDS Naturals

CONSTANTS
    MaxEditors,  \* bound of the editor windows of a behaviour
    MaxMessages, \* bound of the messages made
    MaxTexts,    \* bound of the texts written
    MaxFaults    \* bound of the failures: creation, folder, add, no space, crash

ASSUME ComposerAssumption ==
    {MaxEditors, MaxMessages, MaxTexts, MaxFaults} \subseteq Nat

Editors  == 1..MaxEditors
Messages == 1..MaxMessages
Texts    == 0..MaxTexts
None     == 0            \* no message

VARIABLES
    editors,  \* the edit windows; draft is draft_msg or else outbox_msg,
              \* base the text the window was opened with
    ops,      \* per message made, the operation that makes it
    where,    \* per message, the folder it is in
    dropping, \* old drafts that a send asked the folder to remove
    texts,    \* texts written so far
    faults    \* failures so far

composerVars == <<editors, ops, where, dropping, texts, faults>>

NoEditor == [phase |-> "none", text |-> 0, base |-> 0, modified |-> FALSE,
             sender |-> FALSE, sent |-> FALSE, draft |-> None]
NoOp     == [kind |-> "none", by |-> 0, text |-> 0, old |-> None,
             stage |-> "none", amiss |-> FALSE]

Folders == {"drafts", "outbox", "failed"}   \* failed: in the outbox, FAILED

InFolder(m) == where[m] \in Folders

(* is_modified: a buffer is marked modified, or the sender is not the one   *)
(* the window was opened with, which no save resets.                        *)
Modified(w) == w.modified \/ w.sender

(* A mail of an earlier session may lie in Drafts or failed in the outbox.  *)
ComposerInit ==
    /\ editors = [e \in Editors |-> NoEditor]
    /\ ops = [m \in Messages |-> NoOp]
    /\ \E place \in {"none", "drafts", "failed"} :
          where = [m \in Messages |-> IF m = 1 THEN place ELSE "none"]
    /\ dropping = {} /\ texts = 0 /\ faults = 0

Fault == faults < MaxFaults /\ faults' = faults + 1

Unused(e) == /\ editors[e].phase = "none"
             /\ \A d \in Editors : d < e => editors[d].phase # "none"

Current == {e \in Editors : editors[e].phase = "open"}

NewMsg(m) == /\ ops[m].kind = "none" /\ where[m] = "none"
             /\ \A n \in Messages :
                   ops[n].kind = "none" /\ where[n] = "none" => m <= n

(* on_save_to_drafts and on_send take the text and the old draft as they    *)
(* are now (get_msg_data) and queue the operation.                          *)
StartOp(e, kind, stage) ==
    \E m \in Messages :
       /\ NewMsg(m)
       /\ ops' = [ops EXCEPT ![m] =
                    [kind |-> kind, by |-> e, text |-> editors[e].text,
                     old |-> editors[e].draft, stage |-> stage,
                     amiss |-> FALSE]]

Saved(eds, e) == [eds EXCEPT ![e].modified = FALSE]

(* delete-event: an unsent modified window is saved first, or closed        *)
(* without when there is no room for it; eds are the windows otherwise.     *)
CloseWindow(e, eds) ==
    \/ /\ editors[e].sent \/ ~Modified(editors[e])
       /\ editors' = [eds EXCEPT ![e].phase = "closed"]
       /\ UNCHANGED <<ops, faults>>
    \/ /\ ~editors[e].sent /\ Modified(editors[e])
       /\ StartOp(e, "save", "creating")
       /\ editors' = [Saved(eds, e) EXCEPT ![e].phase = "closed"]
       /\ UNCHANGED faults
    \/ /\ ~editors[e].sent /\ Modified(editors[e]) /\ Fault
       /\ editors' = [eds EXCEPT ![e].phase = "dropped"]
       /\ UNCHANGED ops

(* register_window shows a new window once the one on top has closed.       *)
Register(e, w) ==
    LET eds == [editors EXCEPT ![e] = w] IN
    IF Current = {} THEN editors' = eds /\ UNCHANGED <<ops, faults>>
    ELSE \E c \in Current : CloseWindow(c, eds)

(* A new mail, a reply or a mail composed over D-Bus (marked modified when  *)
(* the caller gave it content to keep).                                     *)
NewEditor(e) ==
    /\ Unused(e) /\ texts < MaxTexts
    /\ texts' = texts + 1
    /\ \E dirty \in BOOLEAN :
          Register(e, [NoEditor EXCEPT
             !.phase = "open", !.text = texts + 1, !.modified = dirty,
             !.base = IF dirty THEN 0 ELSE texts + 1])
    /\ UNCHANGED <<where, dropping>>

(* Opening a draft, or a failed mail of the outbox, that no window shows    *)
(* and no other request is opening; the message is fetched first.           *)
OpenDraft(e, m) ==
    /\ Unused(e) /\ where[m] \in {"drafts", "failed"}
    /\ \A d \in Editors :
          editors[d].phase \in {"opening", "open"} => editors[d].draft # m
    /\ editors' = [editors EXCEPT ![e] =
                     [NoEditor EXCEPT !.phase = "opening", !.draft = m]]
    /\ UNCHANGED <<ops, where, dropping, texts, faults>>

DraftRetrieved(e) ==
    LET w == editors[e]
        t == ops[w.draft].text
    IN /\ w.phase = "opening" /\ where[w.draft] \in {"drafts", "failed"}
       /\ Register(e, [w EXCEPT !.phase = "open", !.text = t, !.base = t])
       /\ UNCHANGED <<where, dropping, texts>>

(* The message is gone or cannot be fetched, the mail is being sent again   *)
(* by now, or the window on top would not close.                            *)
OpeningAbandoned(e) ==
    /\ editors[e].phase = "opening"
    /\ editors' = [editors EXCEPT ![e] = NoEditor]
    /\ UNCHANGED <<ops, where, dropping, texts, faults>>

Edit(e) ==
    /\ editors[e].phase = "open" /\ texts < MaxTexts
    /\ texts' = texts + 1
    /\ \/ editors' = [editors EXCEPT ![e].text = texts + 1,
                                     ![e].modified = TRUE]
       \/ editors' = [editors EXCEPT ![e].text = texts + 1,
                                     ![e].sender = TRUE]
    /\ UNCHANGED <<ops, where, dropping, faults>>

(* on_save_to_drafts: the window counts as unmodified from the request on.  *)
SaveToDrafts(e) ==
    /\ editors[e].phase = "open"
    /\ StartOp(e, "save", "creating")
    /\ editors' = Saved(editors, e)
    /\ UNCHANGED <<where, dropping, texts, faults>>

(* No room, or no account to save with: reading a rich text has marked it   *)
(* modified, nothing else happens.                                          *)
SaveRefused(e) ==
    /\ editors[e].phase = "open"
    /\ editors' = [editors EXCEPT ![e].modified = TRUE]
    /\ UNCHANGED <<ops, where, dropping, texts, faults>>

(* on_send: the window closes at once, unsaved.                             *)
Send(e) ==
    /\ editors[e].phase = "open"
    /\ StartOp(e, "send", "creating")
    /\ editors' = [editors EXCEPT ![e].phase = "closed", ![e].sent = TRUE]
    /\ UNCHANGED <<where, dropping, texts, faults>>

(* The thread failed before send_msg_with_transport looked at the error:    *)
(* the window stays.                                                        *)
SendFailsAtOnce(e) ==
    /\ editors[e].phase = "open" /\ Fault
    /\ StartOp(e, "send", "failed")
    /\ editors' = [editors EXCEPT ![e].modified = TRUE]
    /\ UNCHANGED <<where, dropping, texts>>

CloseEditor(e) ==
    /\ editors[e].phase = "open"
    /\ CloseWindow(e, editors)
    /\ UNCHANGED <<where, dropping, texts>>

At(m, stage) == [ops EXCEPT ![m].stage = stage]

(* create_msg_thread and the callback of a save: an attachment that cannot  *)
(* be read (FILE_IO) does not stop it.  With such an error and no Drafts    *)
(* folder neither branch of save_to_drafts_cb runs: the save is stuck.      *)
MadeToSave(m) ==
    /\ ops[m].kind = "save" /\ ops[m].stage = "creating"
    /\ \/ ops' = At(m, "adding") /\ UNCHANGED faults
       \/ Fault /\ ops' = [At(m, "adding") EXCEPT ![m].amiss = TRUE]
       \/ Fault /\ ops' = At(m, "failed")
       \/ Fault /\ ops' = At(m, "stuck")
    /\ UNCHANGED <<editors, where, dropping, texts>>

(* send_new_mail_cb: the message goes to the outbox and the old draft out   *)
(* of its folder, neither waiting for the other; the old draft stays        *)
(* (amiss) when a special folder of its account is missing.                 *)
MadeToSend(m) ==
    /\ ops[m].kind = "send" /\ ops[m].stage = "creating"
    /\ \/ /\ ops' = At(m, "adding") /\ UNCHANGED faults
          /\ dropping' = dropping \union ({ops[m].old} \ {None})
       \/ /\ Fault /\ ops' = [At(m, "adding") EXCEPT ![m].amiss = TRUE]
          /\ UNCHANGED dropping
       \/ Fault /\ ops' = At(m, "failed") /\ UNCHANGED dropping
    /\ UNCHANGED <<editors, where, texts>>

Without(folders, m) ==
    [n \in Messages |-> IF n = m /\ folders[n] \in Folders THEN "gone"
                        ELSE folders[n]]

\* Mutants: the old draft goes when the new one cannot be added; the new one
\* makes the window unmodified; it stays where another was taken over; it
\* stays next to the old one.
OldDraftGone(m)  == Without(where, ops[m].old)
AddedUnmodified(m) ==
    [editors EXCEPT ![ops[m].by].draft = m, ![ops[m].by].modified = FALSE]
FirstTakenOver(m) ==
    IF editors[ops[m].by].draft # None THEN editors
    ELSE [editors EXCEPT ![ops[m].by].draft = m]
NextToOld(m) == [where EXCEPT ![m] = "drafts"]

(* The folders after the add of a draft: its old version has been removed.  *)
Replaced(m) == Without([where EXCEPT ![m] = "drafts"], ops[m].old)

(* on_save_to_drafts_cb: not when an attachment was missing.                *)
TakenOver(m) ==
    IF ops[m].amiss THEN editors ELSE [editors EXCEPT ![ops[m].by].draft = m]

(* When the add fails nothing is removed.                                   *)
AfterFailure(m) == where

(* save_to_drafts_add_msg_cb and on_save_to_drafts_cb.                      *)
AddedToDrafts(m) ==
    /\ ops[m].kind = "save" /\ ops[m].stage = "adding"
    /\ ops' = At(m, "done")
    /\ where' = Replaced(m)
    /\ editors' = TakenOver(m)
    /\ UNCHANGED <<dropping, texts, faults>>

AddedToOutbox(m) ==
    /\ ops[m].kind = "send" /\ ops[m].stage = "adding"
    /\ ops' = At(m, "done")
    /\ where' = [where EXCEPT ![m] = "outbox"]
    /\ UNCHANGED <<editors, dropping, texts, faults>>

AddFails(m) ==
    /\ ops[m].stage = "adding" /\ Fault
    /\ ops' = At(m, "lost")
    /\ where' = AfterFailure(m)
    /\ UNCHANGED <<editors, dropping, texts>>

OldDraftRemoved(m) ==
    /\ m \in dropping
    /\ dropping' = dropping \ {m}
    /\ where' = Without(where, m)
    /\ UNCHANGED <<editors, ops, texts, faults>>

(* The send queue: a mail is sent or fails, and a failed one is retried.    *)
QueueStep(m) ==
    /\ \/ /\ where[m] = "outbox"
          /\ \E next \in {"sent", "failed"} :
                where' = [where EXCEPT ![m] = next]
       \/ where[m] = "failed" /\ where' = [where EXCEPT ![m] = "outbox"]
    /\ UNCHANGED <<editors, ops, dropping, texts, faults>>

(* A send ends when its old draft has been removed and synchronised, too.   *)
Pending(m) == \/ ops[m].stage \in {"creating", "adding"}
              \/ ops[m].kind = "send" /\ ops[m].old \in dropping

(* The program dies: the folders stay, with any of the adds and removals    *)
(* under way done and their callbacks not run.                              *)
Crash ==
    /\ Fault
    /\ \E stored \in SUBSET {m \in Messages : ops[m].stage = "adding"},
          removed \in SUBSET dropping :
          where' = [m \in Messages |->
             IF m \in stored THEN IF ops[m].kind = "save" THEN "drafts"
                                  ELSE "outbox"
             ELSE IF m \in removed /\ InFolder(m) THEN "gone"
             ELSE where[m]]
    /\ ops' = [m \in Messages |-> IF Pending(m)
                                  THEN [ops[m] EXCEPT !.stage = "crashed"]
                                  ELSE ops[m]]
    /\ editors' = [e \in Editors |->
          IF editors[e].phase = "open"
          THEN [editors[e] EXCEPT !.phase = "crashed"]
          ELSE IF editors[e].phase = "opening" THEN NoEditor ELSE editors[e]]
    /\ dropping' = {}
    /\ UNCHANGED texts

ComposerNext ==
    \/ \E e \in Editors :
          \/ NewEditor(e) \/ DraftRetrieved(e) \/ OpeningAbandoned(e)
          \/ Edit(e) \/ SaveToDrafts(e) \/ SaveRefused(e)
          \/ Send(e) \/ SendFailsAtOnce(e) \/ CloseEditor(e)
          \/ \E m \in Messages : OpenDraft(e, m)
    \/ \E m \in Messages :
          \/ MadeToSave(m) \/ MadeToSend(m) \/ AddedToDrafts(m)
          \/ AddedToOutbox(m) \/ AddFails(m) \/ OldDraftRemoved(m)
          \/ QueueStep(m)
    \/ Crash

ComposerSpec == ComposerInit /\ [][ComposerNext]_composerVars

-----------------------------------------------------------------------------
(* Types: what the variables may hold. *)
ComposerTypeOK ==
    /\ editors \in [Editors ->
          [phase : {"none", "opening", "open", "closed", "dropped", "crashed"},
           text : Texts, base : Texts, modified : BOOLEAN, sender : BOOLEAN,
           sent : BOOLEAN, draft : Messages \union {None}]]
    /\ ops \in [Messages ->
          [kind : {"none", "save", "send"}, by : Editors \union {0},
           text : Texts, old : Messages \union {None},
           stage : {"none", "creating", "adding", "done", "failed", "stuck",
                    "lost", "crashed"},
           amiss : BOOLEAN]]
    /\ where \in [Messages -> Folders \union {"none", "sent", "gone"}]
    /\ dropping \subseteq Messages
    /\ texts \in Texts /\ faults \in 0..MaxFaults

Stored(m) == where[m] # "none"

Replaces(n, m) == n > m /\ ops[n].kind # "none" /\ ops[n].old = m

Unfinished(n) == ops[n].kind = "send"
                 /\ ops[n].stage \in {"adding", "lost", "crashed"}

(* A mail that was stored leaves its folder only for one made from it later *)
(* that has been stored itself: a saved text is never lost, whatever the    *)
(* order of saves, sends and failures and wherever the program dies.  The   *)
(* exception is the code's: a send takes the draft away while the mail is   *)
(* still on its way to the outbox (send_new_mail_cb).                       *)
SavedIsKept ==
    \A m \in Messages : where[m] = "gone" =>
       \E n \in Messages : Replaces(n, m) /\ (Stored(n) \/ Unfinished(n))

Failed(n) == ops[n].stage \in {"failed", "stuck", "lost", "crashed"}

(* A text the window was not opened with, and that the window shows as      *)
(* unmodified or was closed with, has been handed to an operation of that   *)
(* window, and that one is under way, has stored it or has failed: editing  *)
(* while a save is pending never makes a close forget the later text.       *)
TextIsHandedOver ==
    \A e \in Editors :
       LET w == editors[e] IN
       /\ \/ w.phase = "closed"
          \/ w.phase = "open" /\ ~Modified(w)
       /\ w.text # w.base
       => \E n \in Messages :
             /\ ops[n].by = e /\ ops[n].text = w.text
             /\ Pending(n) \/ Stored(n) \/ Failed(n)

(* The draft an open editor took over from its last save is still in        *)
(* Drafts, so that the next save replaces it, however saves overlap; not    *)
(* after a save that missed an attachment, which removes the old draft and  *)
(* leaves the window with it (on_save_to_drafts_cb).                        *)
DraftIsLive ==
    \A e \in Editors :
       LET d == editors[e].draft IN
       editors[e].phase = "open" /\ d # None /\ ops[d].by = e
       => where[d] = "drafts" \/ \E n \in Messages : /\ ops[n].by = e
                                                     /\ ops[n].amiss

(* The copies that an editor leaves: what it made and is not gone. *)
Copies(e) == {m \in Messages : /\ ops[m].by = e
                               /\ InFolder(m) \/ where[m] = "sent"}

Settled(e) == \A n \in Messages : ops[n].by = e => ~Pending(n)

(* Once nothing of an editor is pending it has left one copy of its mail,   *)
(* however often it was saved and even if it was sent: two only if two of   *)
(* its operations started from the same old draft (they overlapped, or an   *)
(* attachment was missing), a send could not find the old draft's folder,   *)
(* or the program died.                                                     *)
OneCopy ==
    \A e \in Editors :
       Settled(e) =>
          \/ \A m, n \in Copies(e) : m = n
          \/ \E a, b \in Messages :
                /\ a # b /\ ops[a].by = e /\ ops[b].by = e
                /\ ops[a].old = ops[b].old /\ Stored(a) /\ Stored(b)
          \/ \E a \in Messages :
                /\ ops[a].by = e
                /\ \/ ops[a].kind = "send" /\ ops[a].amiss
                   \/ ops[a].stage = "crashed"
=============================================================================
