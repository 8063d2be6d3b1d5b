----------------------------- MODULE ChatClient -----------------------------
(***************************************************************************)
(* The chat in the terminal (engine/chat): an inbox of the threads of all  *)
(* personas, a thread with an editor below it, and the runs of the harness *)
(* that the texts a user sends start.  Key presses, the poll timer, the    *)
(* ends of runs and the gateway, a process of its own that stores mail in  *)
(* the same databases, interleave.                                         *)
(*                                                                         *)
(* A key handler runs to its first await as one step; the run it starts    *)
(* ends later, when the user may be anywhere else, or gone.  Only threads  *)
(* that began in the chat can be written in.  Layout and colours are left  *)
(* out; what the editor and the lists hold is not.                         *)
(***************************************************************************)
EXTENDS Naturals, FiniteSets, SequencesExt, Subsequences

CONSTANTS
  Personas,    \* the personas of the session, in their order
  Keymap,      \* chat.keymap: action -> binding
  Limit,       \* rows a persona has in the inbox (100 in the code)
  MaxThreads,  \* bound: threads
  MaxMails,    \* bound: mails the gateway stores
  MaxSends,    \* bound: texts sent
  MaxReplies,  \* bound: mails a run stores
  MaxText,     \* bound: length of a text
  MaxFaults    \* bound: database calls that throw

KeyAction ==
  {"send", "refresh", "toggle_display_mode", "quit", "move_selection_up",
   "move_selection_down", "open_thread", "back_to_inbox", "new_local_thread",
   "enter_compose_mode", "compose_cursor_left", "compose_cursor_right",
   "compose_cursor_home", "compose_cursor_end", "compose_delete_backward",
   "compose_delete_forward"}

\* isSupportedChatKeyBinding: the only key that also prints is "i".
Supported ==
  {"enter", "esc", "i", "up", "down", "left", "right", "home", "end", "pageup",
   "pagedown", "backspace", "delete", "ctrl+enter", "ctrl+n", "ctrl+q", "ctrl+r",
   "ctrl+s", "ctrl+t", "ctrl+v"}

\* assertChatKeymapHasNoConflicts: only scrolling, which is left out here,
\* shares keys with the selection.
NoConflicts(keymap) == IsInjective(keymap)

\* parseChatKeymap: what is not valid stops the chat before it starts.
ValidKeymap(keymap) == keymap \in [KeyAction -> Supported] /\ NoConflicts(keymap)

DefaultKeymap ==
  [a \in KeyAction |->
     CASE a = "send" -> "ctrl+s" [] a = "refresh" -> "ctrl+r" [] a = "quit" -> "ctrl+q"
       [] a = "toggle_display_mode" -> "ctrl+v" [] a = "move_selection_up" -> "up"
       [] a = "move_selection_down" -> "down" [] a = "open_thread" -> "enter"
       [] a = "back_to_inbox" -> "esc" [] a = "new_local_thread" -> "ctrl+n"
       [] a = "enter_compose_mode" -> "i" [] a = "compose_cursor_left" -> "left"
       [] a = "compose_cursor_right" -> "right" [] a = "compose_cursor_home" -> "home"
       [] a = "compose_cursor_end" -> "end" [] a = "compose_delete_backward" -> "backspace"
       [] a = "compose_delete_forward" -> "delete"]

ASSUME SomePersona == Personas \in Seq(STRING) /\ Personas # <<>> /\ IsInjective(Personas)
ASSUME KeymapIsValid == ValidKeymap(Keymap)
ASSUME ChatBounds == {Limit, MaxThreads, MaxText} \subseteq Nat \ {0}
                       /\ {MaxMails, MaxSends, MaxReplies, MaxFaults} \subseteq Nat

VARIABLES
  threads,  \* threads by number: persona, whether it began in the chat, messages
  active,   \* their numbers, the last active first
  ui,       \* the session: rows, view, mode, selection, draft and editor
  runs,     \* texts whose run is under way, by number
  phase,    \* open; quit (the screen is gone, runs go on); dead
  counts    \* texts sent, mails stored, faults

vars == <<threads, active, ui, runs, phase, counts>>

-----------------------------------------------------------------------------
(* The databases. *)

Message(kind, n) == [kind |-> kind, send |-> n]

\* The position of a thread in the order of activity.
At(order, t) == CHOOSE i \in DOMAIN order : order[i] = t

\* The threads of one persona that were active last.
ListThreadActivityRows(store, order, p) ==
  LET own == Those(order, {t \in DOMAIN store : store[t].persona = p})
  IN  IF Len(own) > Limit THEN SubSeq(own, 1, Limit) ELSE own

\* Those of all personas, merged by their last activity.
Listed(store, order) ==
  Those(order, {t \in DOMAIN store :
    t \in Range(ListThreadActivityRows(store, order, store[t].persona))})

\* A thread is written in: it moves to the front.
Touched(order, t) == <<t>> \o Those(order, Nat \ {t})

StoreMessage(store, t, m) == [store EXCEPT ![t].log = Append(@, m)]

StoreLocalChatUserMessage(store, t, n) == StoreMessage(store, t, Message("user", n))

Thread(p, local, m) == [persona |-> p, local |-> local, log |-> <<m>>]

CreateLocalChatThreadSeed(p) == Thread(p, TRUE, Message("seed", 0))

\* isWritableLocalSyntheticThread looks at the first message.
ReadOnly(store, t) == ~store[t].local

\* refreshSummaries.
Refreshed(u, store, order) ==
  LET rows == Listed(store, order)
  IN  [u EXCEPT !.rows = rows, !.index = IF @ > Len(rows) /\ rows # <<>> THEN Len(rows)
                                         ELSE IF rows = <<>> THEN 1 ELSE @]

-----------------------------------------------------------------------------
(* The editor: the text and the cursor, how many characters are left of it. *)

Blank == " "
Editor(text) == [text |-> text, cursor |-> Len(text)]

\* What a key prints.
Printed(k) == CASE k = "i" -> <<"i">> [] k = "space" -> <<Blank>> [] OTHER -> <<>>

Cut(e, i) == [e EXCEPT !.text = RemoveAt(@, i)]

\* Wrong variant: the cursor stays where the character was.
CutBefore(e) == IF e.cursor = 0 THEN e ELSE Cut(e, e.cursor)

DeleteBackward(e) == IF e.cursor = 0 THEN e ELSE [Cut(e, e.cursor) EXCEPT !.cursor = @ - 1]

\* The name under which the editor knows a key.
ComposeBinding(k) ==
  CASE k = Keymap["compose_cursor_left"]     -> "left"
    [] k = Keymap["compose_cursor_right"]    -> "right"
    [] k = Keymap["compose_cursor_home"]     -> "home"
    [] k = Keymap["compose_cursor_end"]      -> "end"
    [] k = Keymap["compose_delete_backward"] -> "backspace"
    [] k = Keymap["compose_delete_forward"]  -> "delete"
    [] OTHER -> k

\* applyComposeInputBinding (ctrl+b, ctrl+f, ctrl+a, ctrl+e and ctrl+d, which
\* do what five of these keys do, are left out).
Edited(e, binding, printed) ==
  CASE binding = "left"      -> [e EXCEPT !.cursor = IF @ = 0 THEN 0 ELSE @ - 1]
    [] binding = "right"     -> [e EXCEPT !.cursor = IF @ = Len(e.text) THEN @ ELSE @ + 1]
    [] binding = "home"      -> [e EXCEPT !.cursor = 0]
    [] binding = "end"       -> [e EXCEPT !.cursor = Len(e.text)]
    [] binding = "backspace" -> DeleteBackward(e)
    [] binding = "delete"    -> IF e.cursor >= Len(e.text) THEN e ELSE Cut(e, e.cursor + 1)
    [] OTHER -> [text |-> SubSeq(e.text, 1, e.cursor) \o printed
                            \o SubSeq(e.text, e.cursor + 1, Len(e.text)),
                 cursor |-> e.cursor + Len(printed)]

HasText(text) == \E i \in DOMAIN text : text[i] # Blank

-----------------------------------------------------------------------------
(* The controller. *)

\* open_thread and new_local_thread: a thread that can be written in is
\* opened in its editor.
Opened(u, t, ro) ==
  [u EXCEPT !.view = "thread", !.selected = t, !.readOnly = ro,
            !.mode = IF ro THEN "command" ELSE "compose",
            !.draft = <<>>, !.editor = Editor(<<>>)]

\* back_to_inbox: the draft is dropped.
Closed(u) ==
  [u EXCEPT !.view = "inbox", !.selected = 0, !.readOnly = TRUE,
            !.mode = "command", !.draft = <<>>, !.editor = Editor(<<>>)]

Composing == ui.view = "thread" /\ ui.mode = "compose"

\* What is edited is the draft.
Typed(u, e) == [u EXCEPT !.editor = e, !.draft = e.text]

\* The screen is destroyed and the databases are closed; runs go on.
Quit ==
  /\ phase' = "quit"
  /\ UNCHANGED <<threads, active, ui, runs, counts>>

UiOnly(u) ==
  /\ ui' = u
  /\ UNCHANGED <<threads, active, runs, phase, counts>>

\* Wrong variant: every thread that is opened can be written in.
OpenRowWritable == UiOnly(Opened(ui, ui.rows[ui.index], FALSE))

\* Enter opens the row the index points at in the rows of the last refresh.
OpenRow == UiOnly(Opened(ui, ui.rows[ui.index], ReadOnly(threads, ui.rows[ui.index])))

\* createNewLocalThreadForPersona: the seed is stored and the thread opened.
NewThread(p) ==
  LET t     == Len(threads) + 1
      store == Append(threads, CreateLocalChatThreadSeed(p))
      order == Touched(active, t)
      u     == Refreshed([ui EXCEPT !.picker = 0], store, order)
  IN  /\ t <= MaxThreads
      /\ threads' = store /\ active' = order
      /\ ui' = Opened([u EXCEPT !.index = At(u.rows, t)], t, FALSE)
      /\ UNCHANGED <<runs, phase, counts>>

\* handleSendRequested up to its first await.  The draft is gone by then,
\* and a thread that has dropped off the list is not found.
Send ==
  LET t == ui.selected
      n == counts.sends + 1
  IN  IF t \in Range(ui.rows)
      THEN /\ n <= MaxSends
           /\ threads' = StoreLocalChatUserMessage(threads, t, n)
           /\ active' = Touched(active, t)
           /\ runs' = [k \in DOMAIN runs \cup {n} |->
                         IF k = n THEN [thread |-> t, acted |-> FALSE, replies |-> 0] ELSE runs[k]]
           /\ ui' = Typed(ui, Editor(<<>>))
           /\ counts' = [counts EXCEPT !.sends = n]
           /\ UNCHANGED phase
      ELSE UiOnly(Typed(ui, Editor(<<>>)))

-----------------------------------------------------------------------------
(* Keys. *)

\* Keys that may do something, and one that prints a blank.
Keys == Range(Keymap) \cup {"esc", "space"}

PickerKey(k) ==
  /\ ui.picker # 0
  /\ \/ k = Keymap["quit"] /\ Quit
     \/ k = "esc" /\ k # Keymap["quit"] /\ UiOnly([ui EXCEPT !.picker = 0])
     \/ k = Keymap["move_selection_up"] /\ ui.picker > 1 /\ UiOnly([ui EXCEPT !.picker = @ - 1])
     \/ /\ k = Keymap["move_selection_down"] /\ ui.picker < Len(Personas)
        /\ UiOnly([ui EXCEPT !.picker = @ + 1])
     \/ k = Keymap["open_thread"] /\ NewThread(Personas[ui.picker])

\* In the editor the draft is taken from it before any command.
ComposeKey(k) ==
  LET u == Typed(ui, Editor(ui.editor.text))
  IN  /\ ui.picker = 0 /\ Composing
      /\ \/ k = "esc" /\ UiOnly(Closed(ui))
         \/ k = Keymap["refresh"] /\ k # "esc" /\ UiOnly(Refreshed(u, threads, active))
         \/ k = Keymap["toggle_display_mode"] /\ k # "esc" /\ UiOnly(u)
         \/ k = Keymap["quit"] /\ k # "esc" /\ Quit
         \/ /\ k = Keymap["send"] /\ k # "esc"
            /\ IF HasText(ui.editor.text) THEN Send ELSE UiOnly(u)
         \/ LET edited == Edited(ui.editor, ComposeBinding(k), Printed(k))
            IN  /\ k \notin {"esc"} \cup {Keymap[a] : a \in {"refresh", "toggle_display_mode", "quit", "send"}}
                /\ Len(edited.text) <= MaxText
                /\ UiOnly(Typed(ui, edited))

InboxKey(k) ==
  /\ ui.picker = 0 /\ ui.view = "inbox"
  /\ \/ k = Keymap["move_selection_up"] /\ ui.index > 1 /\ UiOnly([ui EXCEPT !.index = @ - 1])
     \/ /\ k = Keymap["move_selection_down"] /\ ui.index < Len(ui.rows)
        /\ UiOnly([ui EXCEPT !.index = @ + 1])
     \/ k = Keymap["open_thread"] /\ ui.index \in DOMAIN ui.rows /\ OpenRow
     \/ /\ k = Keymap["new_local_thread"]
        /\ IF Len(Personas) > 1 THEN UiOnly([ui EXCEPT !.picker = 1]) ELSE NewThread(Personas[1])
     \/ k = Keymap["refresh"] /\ UiOnly(Refreshed(ui, threads, active))
     \/ k = Keymap["quit"] /\ Quit

\* A thread that is only read: sending is blocked, and so is the editor.
ThreadKey(k) ==
  /\ ui.picker = 0 /\ ui.view = "thread" /\ ui.mode = "command"
  /\ \/ /\ k = Keymap["enter_compose_mode"]
        /\ UiOnly([ui EXCEPT !.mode = IF ui.readOnly THEN @ ELSE "compose"])
     \/ k = Keymap["back_to_inbox"] /\ UiOnly(Closed(ui))
     \/ k = Keymap["refresh"] /\ UiOnly(Refreshed(ui, threads, active))
     \/ k = Keymap["quit"] /\ Quit

KeyPress ==
  /\ phase = "open"
  /\ \E k \in Keys : PickerKey(k) \/ ComposeKey(k) \/ InboxKey(k) \/ ThreadKey(k)

-----------------------------------------------------------------------------
(* Timers, runs and the gateway. *)

\* Wrong variant: no refresh while a thread is open.
PollInboxOnly ==
  /\ phase = "open" /\ ui.picker = 0 /\ ui.view = "inbox"
  /\ UiOnly(Refreshed(ui, threads, active))

\* The poll timer waits while the user composes or picks a persona.
Poll ==
  /\ phase = "open" /\ ui.picker = 0 /\ ~Composing
  /\ UiOnly(Refreshed(ui, threads, active))

\* The gateway stores a mail, in a thread of its own or an earlier one.
Mail ==
  /\ counts.mails < MaxMails
  /\ counts' = [counts EXCEPT !.mails = @ + 1]
  /\ \/ \E p \in Range(Personas) :
          /\ Len(threads) < MaxThreads
          /\ threads' = Append(threads, Thread(p, FALSE, Message("mail", 0)))
          /\ active' = Touched(active, Len(threads) + 1)
     \/ \E t \in DOMAIN threads :
          /\ ~threads[t].local
          /\ threads' = StoreMessage(threads, t, Message("mail", 0))
          /\ active' = Touched(active, t)
  /\ UNCHANGED <<ui, runs, phase>>

\* Wrong variant: a reply goes to the thread on the screen.
ReplyOnScreen(n) == IF ui.selected # 0 THEN ui.selected ELSE runs[n].thread

\* A reply goes to the thread its text was sent in.
ReplyThread(n) == runs[n].thread

\* invokedActions: that the run called email.send is noted before it is done.
Noted(n, replies) ==
  [runs EXCEPT ![n] = [thread |-> runs[n].thread, acted |-> TRUE, replies |-> replies]]

\* createChatRuntimeActionInvoker: every email.send of the run is stored in the
\* thread and sent to nobody.  One without a body is refused, as is one on a
\* database that quitting has closed; the run goes on.
RunActs(n) ==
  /\ \/ /\ phase = "open" /\ runs[n].replies < MaxReplies
        /\ threads' = StoreMessage(threads, ReplyThread(n), Message("reply", n))
        /\ active' = Touched(active, ReplyThread(n))
        /\ runs' = Noted(n, runs[n].replies + 1)
     \/ /\ runs' = Noted(n, runs[n].replies)
        /\ UNCHANGED <<threads, active>>
  /\ UNCHANGED <<ui, phase, counts>>

\* The handler goes on after its run: it lists the threads, and on closed
\* databases that ends the process, with all other runs.
AfterRun(n, store, order) ==
  IF phase = "open"
  THEN /\ ui' = Refreshed(ui, store, order)
       /\ runs' = [k \in DOMAIN runs \ {n} |-> runs[k]]
       /\ UNCHANGED phase
  ELSE /\ phase' = "dead" /\ runs' = <<>>
       /\ UNCHANGED ui

\* The harness stores the final response, on a connection of its own, unless
\* email.send was called, whether it stored a reply or was refused.
RunEnds(n) ==
  LET store == IF runs[n].acted THEN threads ELSE StoreMessage(threads, ReplyThread(n), Message("final", n))
      order == IF runs[n].acted THEN active ELSE Touched(active, ReplyThread(n))
  IN  /\ threads' = store /\ active' = order
      /\ AfterRun(n, store, order)
      /\ UNCHANGED counts

RunFails(n) ==
  /\ AfterRun(n, threads, active)
  /\ UNCHANGED <<threads, active, counts>>

RunStep == \E n \in DOMAIN runs : RunActs(n) \/ RunEnds(n) \/ RunFails(n)

\* A database stays locked for longer than its timeout: the handler throws,
\* and nothing catches that.
DatabaseThrows ==
  /\ phase = "open" /\ counts.faults < MaxFaults
  /\ counts' = [counts EXCEPT !.faults = @ + 1]
  /\ phase' = "dead" /\ runs' = <<>>
  /\ UNCHANGED <<threads, active, ui>>

-----------------------------------------------------------------------------

Session == [view |-> "inbox", mode |-> "command", selected |-> 0, readOnly |-> TRUE,
            draft |-> <<>>, editor |-> Editor(<<>>), picker |-> 0, index |-> 1, rows |-> <<>>]

\* The session starts on what earlier sessions and the gateway have stored,
\* in the inbox or, with --thread, in a thread that is listed.
Init ==
  /\ threads \in {<<>>} \cup {<<Thread(Personas[1], local, Message("seed", 0))>> : local \in BOOLEAN}
  /\ active = [t \in DOMAIN threads |-> t]
  /\ LET u == Refreshed(Session, threads, active)
     IN  ui \in {u} \cup {Opened(u, t, ReadOnly(threads, t)) : t \in DOMAIN threads}
  /\ runs = <<>> /\ phase = "open"
  /\ counts = [sends |-> 0, mails |-> 0, faults |-> 0]

Next == KeyPress \/ Poll \/ Mail \/ RunStep \/ DatabaseThrows

Spec == Init /\ [][Next]_vars

\* The poll timer fires, and runs end.
FairSpec == Spec /\ WF_vars(Poll) /\ WF_vars(RunStep)

-----------------------------------------------------------------------------
(* Properties. *)

TypeOK ==
  /\ Len(threads) <= MaxThreads
  /\ \A t \in DOMAIN threads : threads[t].persona \in Range(Personas) /\ threads[t].log # <<>>
  /\ Range(active) = DOMAIN threads /\ Len(active) = Len(threads)
  /\ ui.view \in {"inbox", "thread"} /\ ui.mode \in {"command", "compose"}
  /\ ui.selected \in 0 .. Len(threads) /\ ui.picker \in 0 .. Len(Personas)
  /\ ui.index = 1 \/ ui.index \in DOMAIN ui.rows
  /\ ui.editor.cursor \in 0 .. Len(ui.editor.text)
  /\ DOMAIN runs \subseteq 1 .. counts.sends
  /\ phase \in {"open", "quit", "dead"}

\* However polls, runs and mails change the lists under it, the editor is
\* open only in a thread that began in the chat, one the session still lists
\* or one that newer threads have pushed off the list; what the editor shows
\* is the draft that would be sent; and a persona is picked in the inbox only.
ComposeIsSafe ==
  /\ Composing => /\ ~ui.readOnly /\ threads[ui.selected].local
                  /\ ui.draft = ui.editor.text
                  /\ \/ ui.selected \in Range(ui.rows)
                     \/ Cardinality({t \in DOMAIN threads :
                          threads[t].persona = threads[ui.selected].persona}) > Limit
  /\ ui.picker # 0 => ui.view = "inbox"

\* What a run has written in answer to text n.
Answers(m, n) == m.kind \in {"reply", "final"} /\ m.send = n

\* Where the user has gone meanwhile does not matter: what a run stores is in
\* the thread of the text it answers, after it; a final response is stored
\* only where no mail of the run is, and once; no thread of mail holds a text
\* of the chat.
RepliesStayHome ==
  \A t \in DOMAIN threads : \A i \in DOMAIN threads[t].log :
    LET log == threads[t].log
        m   == log[i]
    IN  /\ Answers(m, m.send) => Message("user", m.send) \in Range(SubSeq(log, 1, i))
        /\ m.kind = "final" => \A j \in DOMAIN log : Answers(log[j], m.send) => j = i
        /\ m.kind = "user" => threads[t].local

\* What the user does not see yet is shown in the end, unless the user
\* composes or picks a persona again and again, or is gone.
InboxCatchesUp ==
  []<>(\/ ui.rows = Listed(threads, active)
       \/ Composing \/ ui.picker # 0 \/ phase # "open")
=============================================================================
