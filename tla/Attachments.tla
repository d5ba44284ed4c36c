----------------------------- MODULE Attachments ------------------------------
(***************************************************************************)
(* The attachments of the message a viewer shows: opening one of them and  *)
(* saving several, and the progress hint the viewer has for these and for  *)
(* its mail operations (widgets/modest-msg-view-window.c).                 *)
(*                                                                         *)
(* Attachments are saved by a thread, one file after the other.  For a     *)
(* part that is still on the server it gives up its thread to an idle      *)
(* source that connects, whose performer starts another thread with the    *)
(* files that are left; at the end an idle source tells the user.          *)
(***************************************************************************)
EXTENDS Naturals, FiniteSetsExt

CONSTANTS
    Parts,   \* attachments of the message, numbered as in the list
    Saves,   \* savings under way
    Opens,   \* attachments being decoded to be opened
    Actions  \* mail operations of the window that receive, open or delete

ASSUME AttachmentsAssumption == Parts \subseteq Nat /\ IsFiniteSet(Parts)

VARIABLES
    source,  \* where the message is: in an account, in none, in a merge folder
    link,    \* the device and the account of the message
    fetched, \* parts that were downloaded
    visible, \* the window is there
    hint,    \* priv->progress_hint
    saves,   \* the SaveMimePartInfo of each saving and what was told
    opens,   \* decodings tinymail has not ended
    running  \* operations of the window that started and did not finish

attachVars == <<source, link, fetched, visible, hint, saves, opens, running>>

-----------------------------------------------------------------------------
Sources == {"account", "none", "merge"}
Links   == {"offline", "online", "connected"}

(* The steps of a saving: a question about files to replace, the thread,    *)
(* the two idle sources, and the answer of the platform in between.         *)
Threading == {"thread", "connect", "connecting", "report"}
Stages    == {"free", "ask", "told"} \union Threading

(* How a saving stands: "unset" is the TRUE the code starts with, a code    *)
(* that means none of the other three.                                      *)
Results == {"unset", "ok", "failed", "canceled"}

Save == [stage : Stages, asked : SUBSET Parts, left : SUBSET Parts,
         written : SUBSET Parts, result : Results, told : Results]

NoSave == [stage |-> "free", asked |-> {}, left |-> {}, written |-> {},
           result |-> "unset", told |-> "unset"]

\* A part can be downloaded without asking for a connection.
Reachable ==
    \/ source = "merge"
    \/ source = "account" /\ link = "connected"
    \/ source = "none" /\ link # "offline"

-----------------------------------------------------------------------------
(* Opening an attachment.                                                  *)

\* modest_msg_view_window_view_attachment, for a part that is not a message:
\* for one that was not downloaded it connects first if the device is offline
\* (see Connect).
ViewAttachment(o) ==
    /\ visible /\ o \notin opens
    /\ \E p \in Parts : p \in fetched \/ link # "offline"
    /\ opens' = opens \union {o}
    /\ hint' = TRUE
    /\ UNCHANGED <<source, link, fetched, visible, saves, running>>

\* on_decode_to_stream_async_handler: the hint is left alone if it was
\* canceled or failed.
Decoded(o, ok) ==
    /\ o \in opens
    /\ opens' = opens \ {o}
    /\ hint' = IF ok /\ visible THEN FALSE ELSE hint
    /\ \/ UNCHANGED fetched
       \/ ok /\ link # "offline" /\ \E p \in Parts : fetched' = fetched \union {p}
    /\ UNCHANGED <<source, link, visible, saves, running>>

-----------------------------------------------------------------------------
(* Saving.                                                                 *)

\* Mutant: result starts as GNOME_VFS_OK.
LaunchOk(s, ps, stage) ==
    saves' = [saves EXCEPT ![s] =
                [NoSave EXCEPT !.stage = stage, !.asked = ps, !.left = ps,
                               !.result = "ok"]]

\* save_attachments_response for these parts.
Launch(s, ps, stage) ==
    saves' = [saves EXCEPT ![s] =
                [NoSave EXCEPT !.stage = stage, !.asked = ps, !.left = ps]]

\* save_mime_parts_to_file_with_checks: it asks if there are such files.
SaveAttachments(s) ==
    /\ visible /\ saves[s].stage = "free"
    /\ \E ps \in (SUBSET Parts) \ {{}} :
         \/ Launch(s, ps, "ask") /\ UNCHANGED hint
         \/ Launch(s, ps, "thread") /\ hint' = TRUE
    /\ UNCHANGED <<source, link, fetched, visible, opens, running>>

\* The answer to the question about the files to replace.
Replace(s, yes) ==
    /\ saves[s].stage = "ask"
    /\ saves' = [saves EXCEPT ![s] = IF yes THEN [@ EXCEPT !.stage = "thread"]
                                            ELSE NoSave]
    /\ hint' = (hint \/ yes)
    /\ UNCHANGED <<source, link, fetched, visible, opens, running>>

\* save_mime_part_to_file for the file at the head, which is that of the last
\* attachment left.
WriteFile(s, ok) ==
    LET v    == saves[s]
        p    == Max(v.left)
        left == v.left \ {p}
    IN  /\ v.stage = "thread"
        /\ p \in fetched \/ Reachable
        /\ saves' = [saves EXCEPT ![s] =
                       [v EXCEPT !.left = left,
                                 !.written = IF ok THEN v.written \union {p} ELSE v.written,
                                 !.result = IF ok THEN "ok" ELSE "failed",
                                 !.stage = IF left = {} THEN "report" ELSE v.stage]]
        /\ fetched' = IF ok THEN fetched \union {p} ELSE fetched
        /\ UNCHANGED <<source, link, visible, hint, opens, running>>

\* The same for a part that is on the server.
GiveUpThread(s) ==
    /\ saves[s].stage = "thread"
    /\ Max(saves[s].left) \notin fetched /\ ~Reachable
    /\ saves' = [saves EXCEPT ![s].stage = "connect"]
    /\ UNCHANGED <<source, link, fetched, visible, hint, opens, running>>

\* save_mime_part_to_file_connect_idle; the performer is called at once if
\* there is a connection by now.
ConnectIdle(s) ==
    /\ saves[s].stage = "connect"
    /\ saves' = [saves EXCEPT ![s].stage =
                   IF Reachable THEN "thread" ELSE "connecting"]
    /\ UNCHANGED <<source, link, fetched, visible, hint, opens, running>>

\* save_mime_part_to_file_connect_handler: an error leaves the result of the
\* file before.
Connected(s) ==
    /\ saves[s].stage = "connecting"
    /\ \/ /\ saves' = [saves EXCEPT ![s].stage = "thread"]
          /\ link' = IF source = "account" THEN "connected" ELSE "online"
       \/ /\ saves' = [saves EXCEPT ![s] =
                         [@ EXCEPT !.stage = "report", !.result = "canceled"]]
          /\ UNCHANGED link
       \/ /\ saves' = [saves EXCEPT ![s].stage = "report"]
          /\ UNCHANGED link
    /\ UNCHANGED <<source, fetched, visible, hint, opens, running>>

\* idle_save_mime_part_show_result: "Saved", nothing for a canceled saving, or
\* that the operation failed.
ShowResult(s) ==
    /\ saves[s].stage = "report"
    /\ saves' = [saves EXCEPT ![s] =
                   [@ EXCEPT !.stage = "told",
                             !.told = IF saves[s].result = "unset" THEN "failed"
                                      ELSE saves[s].result]]
    /\ hint' = FALSE
    /\ UNCHANGED <<source, link, fetched, visible, opens, running>>

-----------------------------------------------------------------------------
(* The operations of the window, the window and the network.               *)

\* on_mail_operation_started.
OperationStarted(o) ==
    /\ visible /\ o \notin running
    /\ running' = running \union {o}
    /\ hint' = TRUE
    /\ UNCHANGED <<source, link, fetched, visible, saves, opens>>

\* on_mail_operation_finished: priv->progress_widgets is always empty, so that
\* observers_empty holds whatever else is running.  The handler is gone once
\* the window is closed.
OperationFinished(o) ==
    /\ o \in running
    /\ running' = running \ {o}
    /\ hint' = (hint /\ ~visible)
    /\ UNCHANGED <<source, link, fetched, visible, saves, opens>>

Close ==
    /\ visible
    /\ visible' = FALSE
    /\ UNCHANGED <<source, link, fetched, hint, saves, opens, running>>

LinkChanges ==
    /\ link' \in Links \ {link}
    /\ UNCHANGED <<source, fetched, visible, hint, saves, opens, running>>

-----------------------------------------------------------------------------
AttachInit ==
    /\ source \in Sources /\ link \in Links
    /\ fetched \in SUBSET Parts
    /\ visible = TRUE /\ hint = FALSE
    /\ saves = [s \in Saves |-> NoSave]
    /\ opens = {} /\ running = {}

AttachNext ==
    \/ \E s \in Saves :
         \/ SaveAttachments(s) \/ GiveUpThread(s) \/ ConnectIdle(s)
         \/ Connected(s) \/ ShowResult(s)
         \/ \E ok \in BOOLEAN : Replace(s, ok) \/ WriteFile(s, ok)
    \/ \E o \in Opens : ViewAttachment(o) \/ \E ok \in BOOLEAN : Decoded(o, ok)
    \/ \E o \in Actions : OperationStarted(o) \/ OperationFinished(o)
    \/ Close \/ LinkChanges

AttachSpec == AttachInit /\ [][AttachNext]_attachVars

-----------------------------------------------------------------------------
(* Properties.                                                             *)

\* What idle_save_mime_part_show_result tells fits the file that was tried last,
\* the only one whose result it knows: with "Saved" that file is there, with
\* anything else some file is missing, however often the connection was lost and
\* asked for in between.  "Saved" does not mean all of them: each file overwrites
\* the result of the one before, so one that failed earlier is not told of, and
\* an error of the connection leaves the result as it is.
ReportFitsLastFile ==
    \A s \in Saves : LET v == saves[s] IN
        v.stage = "told" =>
            /\ v.told = "ok" =>
                 v.asked # v.left /\ Min(v.asked \ v.left) \in v.written
            /\ v.told # "ok" => v.written # v.asked

\* modest_msg_view_window_transfer_mode_enabled "determines if some transfer
\* operation is in progress" (modest-msg-view-window.h).
TransferModeIsTrue ==
    visible =>
        (hint <=> \/ running # {} \/ opens # {}
                  \/ \E s \in Saves : saves[s].stage \in Threading)
=============================================================================
