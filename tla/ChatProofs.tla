----------------------------- MODULE ChatProofs -----------------------------
(***************************************************************************)
(* Proofs about ChatClient, for any personas, any keymap the settings      *)
(* accept, any limit of the inbox and any bounds.                          *)
(***************************************************************************)
EXTENDS ChatClient, SequenceFacts

Messages == [kind : {"seed", "user", "mail", "reply", "final"}, send : Nat]
Threads  == [persona : Range(Personas), local : BOOLEAN, log : Seq(Messages)]

\* What is kept of a run under way.
Runs == [thread : Nat, acted : BOOLEAN, replies : Nat]

\* What keys print.
Characters == {"i", Blank}
Texts    == Seq(Characters)
Editors  == [text : Texts, cursor : Nat]
Sessions ==
  [view : {"inbox", "thread"}, mode : {"command", "compose"}, selected : Nat,
   readOnly : BOOLEAN, draft : Texts, editor : Editors, picker : Nat, index : Nat,
   rows : Seq(Nat)]

\* The databases: every thread has a message, and is active once.
Databases(store, order) ==
  /\ store \in Seq(Threads)
  /\ \A t \in DOMAIN store : store[t].log # <<>>
  /\ order \in Seq(Nat) /\ IsInjective(order) /\ Range(order) = 1 .. Len(store)

OfPersona(store, p) == {t \in DOMAIN store : store[t].persona = p}

IsComposing(u) == u.view = "thread" /\ u.mode = "compose"

\* What the editor is open in.
Writable(u, store) ==
  /\ ~u.readOnly /\ u.selected \in DOMAIN store /\ store[u.selected].local
  /\ u.draft = u.editor.text
  /\ \/ u.selected \in Range(u.rows)
     \/ Cardinality(OfPersona(store, store[u.selected].persona)) > Limit

\* A session over the threads that are stored.
Sound(u, store) ==
  /\ u \in Sessions
  /\ u.selected <= Len(store) /\ u.picker <= Len(Personas)
  /\ u.index >= 1 /\ (u.index = 1 \/ u.index <= Len(u.rows))
  /\ Range(u.rows) \subseteq 1 .. Len(store)
  /\ u.editor.cursor <= Len(u.editor.text)
  /\ IsComposing(u) => Writable(u, store)
  /\ u.view = "thread" /\ u.mode = "command" => u.readOnly
  /\ u.picker # 0 => u.view = "inbox"

RunsOK ==
  /\ runs \in [DOMAIN runs -> Runs]
  /\ DOMAIN runs \subseteq 1 .. counts.sends
  /\ \A n \in DOMAIN runs : runs[n].thread \in DOMAIN threads

\* The type invariant that is inductive.
SessionInv ==
  /\ Databases(threads, active) /\ Len(threads) <= MaxThreads
  /\ Sound(ui, threads)
  /\ RunsOK
  /\ phase \in {"open", "quit", "dead"}
  /\ counts \in [sends : Nat, mails : Nat, faults : Nat]

\* An answer in a log comes after the text it answers, and beside a final
\* response there is no other.
RepliesFit(log) ==
  \A i \in DOMAIN log :
    /\ Answers(log[i], log[i].send) => \E j \in 1 .. i : log[j] = Message("user", log[i].send)
    /\ log[i].kind = "final" => \A j \in DOMAIN log : Answers(log[j], log[i].send) => j = i

\* Texts have numbers of their own.
LogFits(thread, sends) ==
  /\ RepliesFit(thread.log)
  /\ \A i \in DOMAIN thread.log :
       /\ thread.log[i].send <= sends
       /\ thread.log[i].kind = "user" => thread.local

Answered(log, n) == \E m \in Range(log) : Answers(m, n)
Finished(log, n) == \E m \in Range(log) : m.kind = "final" /\ m.send = n

\* What may be stored in a log: a mail of a run while it has no final
\* response, which is stored where there is no answer yet.
Fitting(log, m) ==
  /\ Answers(m, m.send) => Message("user", m.send) \in Range(log) /\ ~Finished(log, m.send)
  /\ m.kind = "final" => ~Answered(log, m.send)

\* A text whose run is under way is in its thread without a final response,
\* and without any answer as long as email.send was not called.
RunFits(n) ==
  LET log == threads[runs[n].thread].log
  IN  /\ Message("user", n) \in Range(log)
      /\ ~Finished(log, n)
      /\ ~runs[n].acted => ~Answered(log, n)

RepliesInv ==
  /\ \A t \in DOMAIN threads : LogFits(threads[t], counts.sends)
  /\ \A n \in DOMAIN runs : RunFits(n)

-----------------------------------------------------------------------------
(* The databases. *)

LEMMA MessageTypes ==
  ASSUME NEW kind \in {"seed", "user", "mail", "reply", "final"}, NEW n \in Nat
  PROVE  /\ Message(kind, n) \in Messages
         /\ Message(kind, n).kind = kind /\ Message(kind, n).send = n
  BY DEF Message, Messages

LEMMA MessageEquality ==
  ASSUME NEW m \in Messages
  PROVE  m = Message(m.kind, m.send)
  BY DEF Message, Messages

LEMMA ThreadTypes ==
  ASSUME NEW p \in Range(Personas), NEW local \in BOOLEAN, NEW m \in Messages
  PROVE  LET thread == Thread(p, local, m)
         IN  /\ thread \in Threads /\ thread.persona = p /\ thread.local = local
             /\ thread.log = <<m>> /\ thread.log # <<>>
<1>1. <<m>> \in Seq(Messages) /\ <<m>> # <<>>
  OBVIOUS
<1>. QED BY <1>1 DEF Thread, Threads

LEMMA TouchedProperties ==
  ASSUME NEW order \in Seq(Nat), IsInjective(order), NEW t \in Nat
  PROVE  /\ Touched(order, t) \in Seq(Nat) /\ IsInjective(Touched(order, t))
         /\ Range(Touched(order, t)) = Range(order) \cup {t}
         /\ Touched(order, t)[1] = t /\ Touched(order, t) # <<>>
<1> DEFINE moved == <<t>> \o Those(order, Nat \ {t})
<1>1. /\ moved \in Seq(Nat) /\ Len(moved) > 0 /\ moved[1] = t
      /\ Range(moved) = Range(order) \cup {t}
      /\ IsInjective(order) => IsInjective(moved)
  BY MovedToFront, Zenon
<1>2. Touched(order, t) = moved
  BY DEF Touched
<1> HIDE DEF moved
<1>3. moved # <<>>
  BY <1>1
<1>. QED BY <1>1, <1>2, <1>3

\* The databases after a message was stored in a thread.
StoredIn(store, t, m, next) ==
  /\ Len(next) = Len(store)
  /\ next[t].log = Append(store[t].log, m)
  /\ \A u \in DOMAIN store : u # t => next[u].log = store[u].log
  /\ \A u \in DOMAIN store : next[u].persona = store[u].persona /\ next[u].local = store[u].local

LEMMA MessageStored ==
  ASSUME NEW store, NEW order, Databases(store, order), NEW t \in DOMAIN store, NEW m \in Messages
  PROVE  LET next == StoreMessage(store, t, m)
         IN  StoredIn(store, t, m, next) /\ Databases(next, Touched(order, t))
<1> DEFINE next == StoreMessage(store, t, m)
           moved == Touched(order, t)
<1>1. /\ store \in Seq(Threads) /\ DOMAIN store = 1 .. Len(store) /\ Len(store) \in Nat
      /\ \A u \in DOMAIN store : store[u] \in Threads
      /\ t \in Nat /\ store[t] \in Threads
  BY DEF Databases
<1>2. Append(store[t].log, m) \in Seq(Messages) /\ Append(store[t].log, m) # <<>>
  <2> DEFINE log == store[t].log
  <2>1. log \in Seq(Messages)
    BY <1>1 DEF Threads
  <2> HIDE DEF log
  <2>2. Append(log, m) \in Seq(Messages) /\ Append(log, m) # <<>>
    BY <2>1, AppendProperties
  <2>. QED BY <2>2 DEF log
<1> DEFINE thread == [store[t] EXCEPT !.log = Append(@, m)]
<1>3. /\ thread \in Threads /\ thread.persona = store[t].persona /\ thread.local = store[t].local
      /\ thread.log = Append(store[t].log, m)
  BY <1>1, <1>2 DEF Threads
<1> HIDE DEF thread
<1>4. next = [store EXCEPT ![t] = thread]
  BY DEF StoreMessage, thread
<1>5. /\ next \in Seq(Threads) /\ Len(next) = Len(store) /\ DOMAIN next = DOMAIN store
      /\ \A u \in DOMAIN store : next[u] = IF u = t THEN thread ELSE store[u]
  BY <1>1, <1>3, <1>4, ExceptSeq
<1> HIDE DEF next
<1>6. StoredIn(store, t, m, next)
  BY <1>3, <1>5 DEF StoredIn
<1>7. \A u \in DOMAIN next : next[u].log # <<>>
  BY <1>2, <1>3, <1>5 DEF Databases
<1>8. moved \in Seq(Nat) /\ IsInjective(moved) /\ Range(moved) = 1 .. Len(next)
  <2>1. order \in Seq(Nat) /\ IsInjective(order) /\ Range(order) = 1 .. Len(store)
    BY DEF Databases
  <2>2. moved \in Seq(Nat) /\ IsInjective(moved) /\ Range(moved) = Range(order) \cup {t}
    BY <1>1, <2>1, TouchedProperties
  <2>. QED BY <1>1, <1>5, <2>1, <2>2
<1> HIDE DEF moved
<1>9. Databases(next, moved)
  BY <1>5, <1>7, <1>8 DEF Databases
<1>. QED BY <1>6, <1>9 DEF next, moved

LEMMA ThreadStored ==
  ASSUME NEW store, NEW order, Databases(store, order), NEW thread \in Threads, thread.log # <<>>
  PROVE  LET n    == Len(store) + 1
             next == Append(store, thread)
         IN  /\ Databases(next, Touched(order, n))
             /\ Len(next) = n /\ next[n] = thread /\ Touched(order, n)[1] = n
             /\ \A u \in DOMAIN store : next[u] = store[u]
<1> DEFINE n == Len(store) + 1
           next == Append(store, thread)
           moved == Touched(order, n)
<1>1. store \in Seq(Threads) /\ DOMAIN store = 1 .. Len(store) /\ Len(store) \in Nat /\ n \in Nat
  BY DEF Databases
<1>2. /\ next \in Seq(Threads) /\ Len(next) = n /\ DOMAIN next = 1 .. n /\ next[n] = thread
      /\ \A u \in DOMAIN store : next[u] = store[u]
  BY <1>1, AppendProperties
<1>3. \A u \in DOMAIN next : next[u].log # <<>>
  BY <1>1, <1>2 DEF Databases
<1>4. order \in Seq(Nat) /\ IsInjective(order) /\ Range(order) = 1 .. Len(store)
  BY DEF Databases
<1>5. moved \in Seq(Nat) /\ IsInjective(moved) /\ Range(moved) = Range(order) \cup {n} /\ moved[1] = n
  BY <1>1, <1>4, TouchedProperties
<1> HIDE DEF next, moved
<1>6. Range(moved) = 1 .. n
  <2>1. 1 .. n = (1 .. Len(store)) \cup {n}
    BY <1>1
  <2>. QED BY <2>1, <1>4, <1>5
<1>7. Databases(next, moved)
  BY <1>2, <1>3, <1>5, <1>6 DEF Databases
<1>. QED BY <1>2, <1>5, <1>7 DEF next, moved

\* The inbox holds threads that are stored, the one that was active last
\* among them; one that is not in it is of a persona with more threads than
\* the inbox has rows for.
LEMMA InboxRows ==
  ASSUME NEW store, NEW order, Databases(store, order)
  PROVE  /\ Listed(store, order) \in Seq(Nat)
         /\ Range(Listed(store, order)) \subseteq 1 .. Len(store)
         /\ order # <<>> => order[1] \in Range(Listed(store, order))
         /\ \A t \in DOMAIN store :
              \/ t \in Range(Listed(store, order))
              \/ Cardinality(OfPersona(store, store[t].persona)) > Limit
<1> DEFINE own(p) == Those(order, OfPersona(store, p))
           top(p) == ListThreadActivityRows(store, order, p)
           keep == {t \in DOMAIN store : t \in Range(top(store[t].persona))}
           rows == Listed(store, order)
<1>1. /\ DOMAIN store = 1 .. Len(store) /\ Len(store) \in Nat /\ Limit \in Nat /\ Limit >= 1
      /\ order \in Seq(Nat) /\ IsInjective(order) /\ Range(order) = DOMAIN store
  BY ChatBounds DEF Databases
<1>2. rows \in Seq(Nat) /\ Range(rows) = Range(order) \cap keep
  BY <1>1, ThoseProperties DEF Listed
<1>3. \A p : top(p) = IF Len(own(p)) > Limit THEN SubSeq(own(p), 1, Limit) ELSE own(p)
  BY DEF ListThreadActivityRows, OfPersona
<1>4. ASSUME NEW p
      PROVE  /\ own(p) \in Seq(Nat) /\ IsInjective(own(p))
             /\ Range(own(p)) = OfPersona(store, p)
             /\ order # <<>> /\ order[1] \in OfPersona(store, p) =>
                  Len(own(p)) > 0 /\ own(p)[1] = order[1]
  <2>1. /\ own(p) \in Seq(Nat) /\ Range(own(p)) = Range(order) \cap OfPersona(store, p)
        /\ IsInjective(order) => IsInjective(own(p))
        /\ order # <<>> /\ order[1] \in OfPersona(store, p) =>
             Len(own(p)) > 0 /\ own(p)[1] = order[1]
    BY <1>1, ThoseProperties
  <2>2. OfPersona(store, p) \subseteq Range(order)
    BY <1>1 DEF OfPersona
  <2>. QED BY <1>1, <2>1, <2>2
<1> HIDE DEF own, top, rows
<1>5. ASSUME order # <<>> PROVE order[1] \in Range(rows)
  <2> DEFINE t == order[1]
             p == store[t].persona
  <2>1. 1 \in DOMAIN order /\ t \in Range(order) /\ t \in OfPersona(store, p)
    BY <1>1, <1>5 DEF OfPersona, Range
  <2>2. own(p) \in Seq(Nat) /\ Len(own(p)) > 0 /\ own(p)[1] = t
    BY <1>4, <1>5, <2>1
  <2>3. top(p) \in Seq(Nat) /\ 1 \in DOMAIN top(p) /\ top(p)[1] = t
    <3> DEFINE o == own(p)
    <3>1. o \in Seq(Nat) /\ Len(o) > 0 /\ o[1] = t /\ top(p) = IF Len(o) > Limit THEN SubSeq(o, 1, Limit) ELSE o
      BY <2>2, <1>3
    <3> HIDE DEF o, p, t
    <3>2. CASE Len(o) > Limit
      <4>1. \A i \in 1 .. Limit : o[i] \in Nat
        BY <3>1, <3>2, <1>1, LenProperties
      <4>2. SubSeq(o, 1, Limit) \in Seq(Nat) /\ Len(SubSeq(o, 1, Limit)) = Limit
            /\ SubSeq(o, 1, Limit)[1] = o[1]
        BY <4>1, <1>1, SubSeqProperties
      <4>. QED BY <3>1, <3>2, <4>2, <1>1
    <3>3. CASE ~ (Len(o) > Limit)
      BY <3>1, <3>3
    <3>. QED BY <3>2, <3>3
  <2>4. t \in Range(top(p))
    BY <2>3 DEF Range
  <2>. QED BY <1>1, <1>2, <2>1, <2>4
<1>6. ASSUME NEW t \in DOMAIN store, t \notin Range(rows)
      PROVE  Cardinality(OfPersona(store, store[t].persona)) > Limit
  <2> DEFINE p == store[t].persona
  <2>1. t \notin Range(top(p))
    BY <1>1, <1>2, <1>6
  <2>2. t \in Range(own(p))
    BY <1>4 DEF OfPersona
  <2>3. Len(own(p)) > Limit
    BY <1>3, <2>1, <2>2
  <2>4. Cardinality(Range(own(p))) = Len(own(p))
    BY <1>4, InjectiveLength
  <2>. QED BY <1>4, <2>3, <2>4
<1>. QED BY <1>1, <1>2, <1>5, <1>6 DEF rows

-----------------------------------------------------------------------------
(* The session. *)

\* Threads are added and written in, no more.
Grown(store, next) ==
  /\ Len(store) <= Len(next)
  /\ \A t \in DOMAIN store : next[t].persona = store[t].persona /\ next[t].local = store[t].local

LEMMA SoundWhenGrown ==
  ASSUME NEW store \in Seq(Threads), NEW next \in Seq(Threads), Grown(store, next),
         NEW u, Sound(u, store)
  PROVE  Sound(u, next)
<1>1. /\ DOMAIN store = 1 .. Len(store) /\ Len(store) \in Nat
      /\ DOMAIN next = 1 .. Len(next) /\ Len(next) \in Nat /\ Len(store) <= Len(next)
      /\ DOMAIN store \subseteq DOMAIN next
  BY DEF Grown
<1>2. ASSUME NEW p
      PROVE  Cardinality(OfPersona(store, p)) > Limit => Cardinality(OfPersona(next, p)) > Limit
  <2>1. OfPersona(store, p) \subseteq OfPersona(next, p) /\ OfPersona(next, p) \subseteq 1 .. Len(next)
    BY <1>1 DEF Grown, OfPersona
  <2>2. IsFiniteSet(1 .. Len(next))
    BY <1>1, FS_Interval
  <2>3. IsFiniteSet(OfPersona(next, p)) /\ IsFiniteSet(OfPersona(store, p))
    BY <2>1, <2>2, FS_Subset
  <2>4. /\ Cardinality(OfPersona(store, p)) \in Nat /\ Cardinality(OfPersona(next, p)) \in Nat
        /\ Cardinality(OfPersona(store, p)) <= Cardinality(OfPersona(next, p))
    BY <2>1, <2>3, FS_Subset, FS_CardinalityType
  <2>. QED BY <2>4, ChatBounds
<1>3. u \in Sessions /\ u.selected \in Nat
  BY DEF Sound, Sessions
<1>4. Writable(u, store) => Writable(u, next)
  <2> SUFFICES ASSUME Writable(u, store) PROVE Writable(u, next)
    OBVIOUS
  <2>1. u.selected \in DOMAIN store
    BY DEF Writable
  <2>2. /\ next[u.selected].persona = store[u.selected].persona
        /\ next[u.selected].local = store[u.selected].local
    BY <2>1 DEF Grown
  <2>. QED BY <1>1, <1>2, <2>1, <2>2 DEF Writable
<1>5. u.selected <= Len(next) /\ Range(u.rows) \subseteq 1 .. Len(next)
  BY <1>1, <1>3 DEF Sound
<1>. QED BY <1>4, <1>5 DEF Sound

\* A refresh puts the lists of the databases in the session, no more.
LEMMA SoundWhenRefreshed ==
  ASSUME NEW store, NEW order, Databases(store, order), NEW u, Sound(u, store)
  PROVE  LET v == Refreshed(u, store, order)
         IN  /\ Sound(v, store)
             /\ v.rows = Listed(store, order)
             /\ v.view = u.view /\ v.mode = u.mode /\ v.picker = u.picker
<1> DEFINE rows == Listed(store, order)
           v == Refreshed(u, store, order)
           index == IF u.index > Len(rows) /\ rows # <<>> THEN Len(rows)
                    ELSE IF rows = <<>> THEN 1 ELSE u.index
<1>1. /\ rows \in Seq(Nat) /\ Range(rows) \subseteq 1 .. Len(store)
      /\ \A t \in DOMAIN store :
              \/ t \in Range(rows)
              \/ Cardinality(OfPersona(store, store[t].persona)) > Limit
  BY InboxRows
<1>2. v = [u EXCEPT !.rows = rows, !.index = index]
  BY DEF Refreshed
<1> HIDE DEF rows
<1>3. /\ index \in Nat /\ index >= 1 /\ (index = 1 \/ index <= Len(rows))
  <2>1. /\ u.index \in Nat /\ u.index >= 1 /\ Len(rows) \in Nat
        /\ rows # <<>> => Len(rows) >= 1
    BY <1>1 DEF Sound, Sessions
  <2>. QED BY <2>1
<1> HIDE DEF index, v
<1>4. /\ v \in Sessions /\ v.rows = rows /\ v.index = index
      /\ v.view = u.view /\ v.mode = u.mode /\ v.picker = u.picker /\ v.selected = u.selected
      /\ v.readOnly = u.readOnly /\ v.draft = u.draft /\ v.editor = u.editor
  BY <1>1, <1>2, <1>3 DEF Sound, Sessions
<1>5. Writable(u, store) => Writable(v, store)
  BY <1>1, <1>4 DEF Writable
<1>6. Sound(v, store)
  BY <1>1, <1>3, <1>4, <1>5 DEF Sound, IsComposing
<1>. QED BY <1>4, <1>6 DEF v, rows

LEMMA BlankEditor ==
  /\ Editor(<<>>) \in Editors /\ Editor(<<>>).text = <<>>
  /\ Editor(<<>>).cursor = 0 /\ Len(<<>>) = 0 /\ <<>> \in Texts
  BY DEF Editor, Editors, Texts

LEMMA SoundWhenOpened ==
  ASSUME NEW store \in Seq(Threads), NEW u, Sound(u, store), u.picker = 0,
         NEW t \in DOMAIN store, t \in Range(u.rows),
         NEW ro \in BOOLEAN, ro <=> ~store[t].local
  PROVE  Sound(Opened(u, t, ro), store)
<1> DEFINE v == Opened(u, t, ro)
<1>1. t \in 1 .. Len(store) /\ Len(store) \in Nat /\ store[t].local \in BOOLEAN /\ t \in Nat
  <2>1. DOMAIN store = 1 .. Len(store) /\ Len(store) \in Nat /\ store[t] \in Threads
    OBVIOUS
  <2>. QED BY <2>1 DEF Threads
<1>2. /\ v \in Sessions /\ v.view = "thread" /\ v.selected = t /\ v.readOnly = ro
      /\ v.mode = (IF ro THEN "command" ELSE "compose")
      /\ v.draft = <<>> /\ v.editor = Editor(<<>>)
      /\ v.rows = u.rows /\ v.index = u.index /\ v.picker = u.picker
  BY <1>1, BlankEditor DEF Opened, Sound, Sessions
<1> HIDE DEF v
<1>3. IsComposing(v) => Writable(v, store)
  BY <1>1, <1>2, BlankEditor DEF IsComposing, Writable
<1>4. v.view = "thread" /\ v.mode = "command" => v.readOnly
  BY <1>1, <1>2
<1>5. v.editor.cursor <= Len(v.editor.text) /\ v.picker = 0
  BY <1>2, BlankEditor
<1>6. /\ v.selected <= Len(store) /\ v.picker <= Len(Personas)
      /\ v.index >= 1 /\ (v.index = 1 \/ v.index <= Len(v.rows))
      /\ Range(v.rows) \subseteq 1 .. Len(store)
  BY <1>1, <1>2 DEF Sound
<1>7. Sound(v, store)
  BY <1>2, <1>3, <1>4, <1>5, <1>6, Zenon DEF Sound
<1>. QED BY <1>7 DEF v

LEMMA SoundWhenClosed ==
  ASSUME NEW store \in Seq(Threads), NEW u, Sound(u, store)
  PROVE  Sound(Closed(u), store)
<1> DEFINE v == Closed(u)
<1>1. /\ v \in Sessions /\ v.view = "inbox" /\ v.selected = 0 /\ v.editor = Editor(<<>>)
      /\ v.rows = u.rows /\ v.index = u.index /\ v.picker = u.picker
  BY BlankEditor DEF Closed, Sound, Sessions
<1> HIDE DEF v
<1>2. Sound(v, store)
  BY <1>1, BlankEditor DEF Sound, IsComposing
<1>. QED BY <1>2 DEF v

LEMMA SoundWhenTyped ==
  ASSUME NEW store \in Seq(Threads), NEW u, Sound(u, store),
         NEW e \in Editors, e.cursor <= Len(e.text)
  PROVE  Sound(Typed(u, e), store)
<1> DEFINE v == Typed(u, e)
<1>1. /\ v \in Sessions /\ v.editor = e /\ v.draft = e.text
      /\ v.rows = u.rows /\ v.index = u.index /\ v.picker = u.picker /\ v.view = u.view
      /\ v.mode = u.mode /\ v.selected = u.selected /\ v.readOnly = u.readOnly
  BY DEF Typed, Sound, Sessions, Editors
<1> HIDE DEF v
<1>2. Writable(u, store) => Writable(v, store)
  BY <1>1 DEF Writable
<1>3. Sound(v, store)
  BY <1>1, <1>2 DEF Sound, IsComposing
<1>. QED BY <1>3 DEF v

LEMMA SoundWhenPicking ==
  ASSUME NEW store \in Seq(Threads), NEW u, Sound(u, store), u.view = "inbox",
         NEW n \in 0 .. Len(Personas)
  PROVE  Sound([u EXCEPT !.picker = n], store)
<1> DEFINE v == [u EXCEPT !.picker = n]
<1>1. n \in Nat /\ n <= Len(Personas)
  BY SomePersona
<1>2. /\ v \in Sessions /\ v.editor = u.editor /\ v.draft = u.draft
      /\ v.rows = u.rows /\ v.index = u.index /\ v.picker = n /\ v.view = u.view
      /\ v.mode = u.mode /\ v.selected = u.selected /\ v.readOnly = u.readOnly
  BY <1>1 DEF Sound, Sessions
<1> HIDE DEF v
<1>3. Sound(v, store)
  BY <1>1, <1>2 DEF Sound, IsComposing
<1>. QED BY <1>3 DEF v

LEMMA SoundWhenMoved ==
  ASSUME NEW store \in Seq(Threads), NEW u, Sound(u, store), NEW i \in 1 .. Len(u.rows)
  PROVE  Sound([u EXCEPT !.index = i], store)
<1> DEFINE v == [u EXCEPT !.index = i]
<1>1. i \in Nat /\ i >= 1 /\ i <= Len(u.rows)
  BY DEF Sound, Sessions
<1>2. /\ v \in Sessions /\ v.editor = u.editor /\ v.draft = u.draft
      /\ v.rows = u.rows /\ v.index = i /\ v.picker = u.picker /\ v.view = u.view
      /\ v.mode = u.mode /\ v.selected = u.selected /\ v.readOnly = u.readOnly
  BY <1>1 DEF Sound, Sessions
<1> HIDE DEF v
<1>3. Writable(u, store) => Writable(v, store)
  BY <1>2 DEF Writable
<1>4. Sound(v, store)
  BY <1>1, <1>2, <1>3 DEF Sound, IsComposing
<1>. QED BY <1>4 DEF v

-----------------------------------------------------------------------------
(* The editor. *)

CursorFits(e) == e \in Editors /\ e.cursor <= Len(e.text)

LEMMA CutTypes ==
  ASSUME NEW e \in Editors, NEW i \in 1 .. Len(e.text)
  PROVE  /\ Cut(e, i) \in Editors /\ Cut(e, i).cursor = e.cursor
         /\ Len(Cut(e, i).text) = Len(e.text) - 1
<1> DEFINE cut == RemoveAt(e.text, i)
<1>1. e.text \in Seq(Characters) /\ e.cursor \in Nat
  BY DEF Editors, Texts
<1>2. cut \in Seq(Characters) /\ Len(cut) = Len(e.text) - 1
  BY <1>1, ItemRemoved
<1> HIDE DEF cut
<1>3. Cut(e, i) = [e EXCEPT !.text = cut]
  BY DEF Cut, cut
<1>. QED BY <1>2, <1>3 DEF Editors, Texts

\* Whatever key is pressed, the cursor stays in the text.
LEMMA CursorStays ==
  ASSUME NEW e, CursorFits(e), NEW binding, NEW printed \in Texts
  PROVE  CursorFits(Edited(e, binding, printed))
<1> DEFINE f == Edited(e, binding, printed)
<1>1. /\ e \in Editors /\ e.text \in Seq(Characters) /\ e.cursor \in Nat /\ Len(e.text) \in Nat
      /\ e.cursor <= Len(e.text) /\ e.cursor \in 0 .. Len(e.text)
  BY DEF CursorFits, Editors, Texts
<1>2. CASE f = [e EXCEPT !.cursor = IF @ = 0 THEN 0 ELSE @ - 1]
  BY <1>1, <1>2 DEF CursorFits, Editors
<1>3. CASE f = [e EXCEPT !.cursor = IF @ = Len(e.text) THEN @ ELSE @ + 1]
  BY <1>1, <1>3 DEF CursorFits, Editors
<1>4. CASE f = [e EXCEPT !.cursor = 0]
  BY <1>1, <1>4 DEF CursorFits, Editors
<1>5. CASE f = [e EXCEPT !.cursor = Len(e.text)]
  BY <1>1, <1>5 DEF CursorFits, Editors
<1>6. CASE f = DeleteBackward(e)
  <2>1. CASE e.cursor = 0
    BY <1>6, <2>1 DEF DeleteBackward
  <2>2. CASE e.cursor # 0
    <3> DEFINE c == Cut(e, e.cursor)
    <3>1. /\ c \in Editors /\ c.cursor = e.cursor /\ Len(c.text) = Len(e.text) - 1
      BY <1>1, <2>2, CutTypes
    <3>2. f = [c EXCEPT !.cursor = @ - 1]
      BY <1>6, <2>2 DEF DeleteBackward
    <3> HIDE DEF c
    <3>3. e.cursor - 1 \in Nat /\ e.cursor - 1 <= Len(e.text) - 1
      BY <1>1, <2>2
    <3>4. f \in Editors /\ f.cursor = e.cursor - 1 /\ f.text = c.text
      BY <3>1, <3>2, <3>3 DEF Editors
    <3>. QED BY <3>1, <3>3, <3>4 DEF CursorFits
  <2>. QED BY <2>1, <2>2
<1>7. CASE f = IF e.cursor >= Len(e.text) THEN e ELSE Cut(e, e.cursor + 1)
  <2>1. CASE e.cursor >= Len(e.text)
    BY <1>7, <2>1
  <2>2. CASE ~ (e.cursor >= Len(e.text))
    <3>1. e.cursor + 1 \in 1 .. Len(e.text)
      BY <1>1, <2>2
    <3>2. f = Cut(e, e.cursor + 1)
      BY <1>7, <2>2
    <3>3. f \in Editors /\ f.cursor = e.cursor /\ Len(f.text) = Len(e.text) - 1
      BY <1>1, <3>1, <3>2, CutTypes
    <3>. QED BY <1>1, <2>2, <3>3 DEF CursorFits
  <2>. QED BY <2>1, <2>2
<1>8. CASE f = [text |-> SubSeq(e.text, 1, e.cursor) \o printed
                           \o SubSeq(e.text, e.cursor + 1, Len(e.text)),
                cursor |-> e.cursor + Len(printed)]
  <2> DEFINE t == SubSeq(e.text, 1, e.cursor) \o printed \o SubSeq(e.text, e.cursor + 1, Len(e.text))
  <2>1. printed \in Seq(Characters) /\ Len(printed) \in Nat
    BY DEF Texts
  <2>2. t \in Seq(Characters) /\ Len(t) = Len(e.text) + Len(printed)
    <3> DEFINE s == e.text
               i == e.cursor
    <3>1. s \in Seq(Characters) /\ i \in 0 .. Len(s)
      BY <1>1
    <3> HIDE DEF s, i
    <3>2. LET q == SubSeq(s, 1, i) \o printed \o SubSeq(s, i + 1, Len(s))
          IN  q \in Seq(Characters) /\ Len(q) = Len(s) + Len(printed)
      BY <2>1, <3>1, ItemInserted
    <3>. QED BY <3>2 DEF s, i
  <2>3. f = [text |-> t, cursor |-> e.cursor + Len(printed)]
    BY <1>8
  <2> HIDE DEF t, f
  <2>4. f \in Editors /\ f.text = t /\ f.cursor = e.cursor + Len(printed)
    BY <1>1, <2>1, <2>2, <2>3 DEF Editors, Texts
  <2>5. f.cursor <= Len(f.text)
    BY <1>1, <2>1, <2>2, <2>4
  <2>. QED BY <2>4, <2>5 DEF CursorFits, f
<1>. QED BY <1>2, <1>3, <1>4, <1>5, <1>6, <1>7, <1>8 DEF Edited

LEMMA PrintedTypes ==
  ASSUME NEW k
  PROVE  Printed(k) \in Texts
<1>1. <<"i">> \in Texts /\ <<Blank>> \in Texts /\ <<>> \in Texts
  <2>1. \A c \in Characters : <<c>> \in Seq(Characters)
    OBVIOUS
  <2>. QED BY <2>1 DEF Texts, Characters
<1>. QED BY <1>1 DEF Printed

-----------------------------------------------------------------------------
(* What the steps do. *)

\* A step of the screen alone.
LEMMA ScreenStep ==
  ASSUME SessionInv, NEW u, Sound(u, threads), UiOnly(u)
  PROVE  SessionInv'
  BY DEF SessionInv, UiOnly, RunsOK

LEMMA QuitStep ==
  ASSUME SessionInv, Quit
  PROVE  SessionInv'
  BY DEF SessionInv, Quit, RunsOK

\* The databases change, with a session that fits them.
LEMMA StoreStep ==
  ASSUME SessionInv, Databases(threads', active'), Len(threads') <= MaxThreads,
         Grown(threads, threads'), Sound(ui', threads'),
         runs' \in [DOMAIN runs' -> Runs],
         DOMAIN runs' \subseteq 1 .. counts'.sends,
         \A n \in DOMAIN runs' : runs'[n].thread \in DOMAIN threads,
         counts' \in [sends : Nat, mails : Nat, faults : Nat],
         phase' \in {"open", "quit", "dead"}
  PROVE  SessionInv'
<1>1. DOMAIN threads \subseteq DOMAIN threads'
  <2>1. /\ DOMAIN threads = 1 .. Len(threads) /\ Len(threads) \in Nat
        /\ DOMAIN threads' = 1 .. Len(threads') /\ Len(threads') \in Nat
        /\ Len(threads) <= Len(threads')
    BY DEF SessionInv, Databases, Grown
  <2>. QED BY <2>1
<1>2. RunsOK'
  BY <1>1 DEF RunsOK
<1>. QED BY <1>2 DEF SessionInv

LEMMA InvFacts ==
  ASSUME SessionInv
  PROVE  /\ threads \in Seq(Threads) /\ DOMAIN threads = 1 .. Len(threads) /\ Len(threads) \in Nat
         /\ Databases(threads, active) /\ Sound(ui, threads) /\ ui \in Sessions
         /\ CursorFits(ui.editor) /\ Len(ui.rows) \in Nat
         /\ Range(ui.rows) \subseteq DOMAIN threads
         /\ \A i \in DOMAIN ui.rows : ui.rows[i] \in DOMAIN threads /\ ui.rows[i] \in Range(ui.rows)
         /\ counts.sends \in Nat
<1>1. threads \in Seq(Threads) /\ DOMAIN threads = 1 .. Len(threads) /\ Len(threads) \in Nat
  BY DEF SessionInv, Databases
<1>2. Sound(ui, threads) /\ ui \in Sessions /\ Range(ui.rows) \subseteq DOMAIN threads
  BY <1>1 DEF SessionInv, Sound
<1>3. CursorFits(ui.editor) /\ Len(ui.rows) \in Nat
  BY <1>2 DEF Sound, CursorFits, Sessions
<1>4. \A i \in DOMAIN ui.rows : ui.rows[i] \in DOMAIN threads /\ ui.rows[i] \in Range(ui.rows)
  BY <1>2 DEF Range
<1>. QED BY <1>1, <1>2, <1>3, <1>4 DEF SessionInv

LEMMA RefreshStep ==
  ASSUME SessionInv, UiOnly(Refreshed(ui, threads, active))
  PROVE  SessionInv'
<1>1. Sound(Refreshed(ui, threads, active), threads)
  BY InvFacts, SoundWhenRefreshed
<1>. QED BY <1>1, ScreenStep

LEMMA OpenRowStep ==
  ASSUME SessionInv, ui.picker = 0, ui.index \in DOMAIN ui.rows, OpenRow
  PROVE  SessionInv'
<1> DEFINE t == ui.rows[ui.index]
<1>1. t \in DOMAIN threads /\ t \in Range(ui.rows) /\ threads \in Seq(Threads) /\ Sound(ui, threads)
  BY InvFacts
<1> DEFINE ro == ~threads[t].local
<1>2. UiOnly(Opened(ui, t, ro))
  BY DEF OpenRow, ReadOnly
<1>3. Sound(Opened(ui, t, ro), threads)
  BY <1>1, SoundWhenOpened
<1>. QED BY <1>2, <1>3, ScreenStep

\* The new thread is in the inbox, which shows it.
LEMMA NewThreadStep ==
  ASSUME SessionInv, ui.view = "inbox", NEW p \in Range(Personas), NewThread(p)
  PROVE  SessionInv'
<1> DEFINE t     == Len(threads) + 1
           new   == CreateLocalChatThreadSeed(p)
           store == Append(threads, new)
           order == Touched(active, t)
           blank == [ui EXCEPT !.picker = 0]
           u     == Refreshed(blank, store, order)
           v     == [u EXCEPT !.index = At(u.rows, t)]
<1>1. /\ t <= MaxThreads /\ threads' = store /\ active' = order
      /\ ui' = Opened(v, t, FALSE)
      /\ runs' = runs /\ phase' = phase /\ counts' = counts
  BY DEF NewThread
<1>2. Databases(threads, active) /\ Len(threads) \in Nat /\ threads \in Seq(Threads)
      /\ DOMAIN threads = 1 .. Len(threads)
  BY InvFacts
<1>3. new \in Threads /\ new.log # <<>> /\ new.local = TRUE
  <2> DEFINE m == Message("seed", 0)
  <2>1. m \in Messages
    BY MessageTypes
  <2> HIDE DEF m
  <2>2. /\ Thread(p, TRUE, m) \in Threads /\ Thread(p, TRUE, m).local = TRUE
        /\ Thread(p, TRUE, m).log # <<>>
    BY <2>1, ThreadTypes
  <2>. QED BY <2>2 DEF CreateLocalChatThreadSeed, m
<1>4. /\ Databases(store, order) /\ Len(store) = t /\ store[t] = new /\ order[1] = t
      /\ \A k \in DOMAIN threads : store[k] = threads[k]
  BY <1>2, <1>3, ThreadStored
<1> HIDE DEF new, store, order
<1>5. Grown(threads, store) /\ store \in Seq(Threads)
  BY <1>2, <1>4 DEF Grown, Databases
<1>6. order # <<>>
  BY <1>2, TouchedProperties DEF order, Databases
<1>7. t \in Range(Listed(store, order))
  BY <1>4, <1>6, InboxRows
<1>8. Sound(blank, store) /\ blank.picker = 0
  <2>1. 0 \in 0 .. Len(Personas)
    BY SomePersona
  <2>2. Sound(blank, threads)
    BY <2>1, InvFacts, SoundWhenPicking
  <2>3. blank.picker = 0
    BY InvFacts DEF Sessions
  <2>. QED BY <1>2, <1>5, <2>2, <2>3, SoundWhenGrown
<1> HIDE DEF blank
<1>9. Sound(u, store) /\ u.rows = Listed(store, order) /\ u.picker = 0
  BY <1>4, <1>8, SoundWhenRefreshed
<1> HIDE DEF u
<1>10. /\ u \in Sessions /\ At(u.rows, t) \in 1 .. Len(u.rows)
  <2>1. u \in Sessions /\ u.rows \in Seq(Nat) /\ DOMAIN u.rows = 1 .. Len(u.rows)
    BY <1>9 DEF Sound, Sessions
  <2>2. \E i \in DOMAIN u.rows : u.rows[i] = t
    BY <1>7, <1>9 DEF Range
  <2>3. At(u.rows, t) \in DOMAIN u.rows
    BY <2>2 DEF At
  <2>. QED BY <2>1, <2>3
<1>11. Sound(v, store)
  BY <1>5, <1>9, <1>10, SoundWhenMoved
<1>12. v.picker = 0 /\ v.rows = u.rows
  BY <1>9, <1>10 DEF Sessions
<1> HIDE DEF v
<1>13. Sound(ui', store)
  <2>1. t \in DOMAIN store
    BY <1>2, <1>4, <1>5
  <2>2. FALSE <=> ~store[t].local
    BY <1>3, <1>4
  <2>3. Sound(Opened(v, t, FALSE), store)
    BY <1>5, <1>7, <1>9, <1>11, <1>12, <2>1, <2>2, SoundWhenOpened
  <2>. QED BY <1>1, <2>3
<1>. QED BY <1>1, <1>4, <1>5, <1>13, StoreStep DEF SessionInv, RunsOK

LEMMA Stores ==
  ASSUME SessionInv, NEW t \in DOMAIN threads, NEW m \in Messages
  PROVE  LET next == StoreMessage(threads, t, m)
         IN  /\ Databases(next, Touched(active, t)) /\ next \in Seq(Threads)
             /\ StoredIn(threads, t, m, next)
             /\ Len(next) <= MaxThreads /\ Grown(threads, next) /\ Sound(ui, next)
<1> DEFINE next == StoreMessage(threads, t, m)
<1>1. /\ threads \in Seq(Threads) /\ Databases(threads, active) /\ Sound(ui, threads)
      /\ Len(threads) \in Nat /\ Len(threads) <= MaxThreads
  BY InvFacts DEF SessionInv
<1>2. StoredIn(threads, t, m, next) /\ Databases(next, Touched(active, t))
  BY <1>1, MessageStored
<1> HIDE DEF next
<1>3. next \in Seq(Threads) /\ Len(next) = Len(threads) /\ Grown(threads, next)
  BY <1>1, <1>2 DEF StoredIn, Databases, Grown
<1>4. Sound(ui, next)
  BY <1>1, <1>3, SoundWhenGrown
<1>. QED BY <1>1, <1>2, <1>3, <1>4 DEF next

LEMMA SendStep ==
  ASSUME SessionInv, Send
  PROVE  SessionInv'
<1> DEFINE t == ui.selected
           n == counts.sends + 1
           blank == Typed(ui, Editor(<<>>))
<1>1. \A store \in Seq(Threads) : Sound(ui, store) => Sound(blank, store)
  BY BlankEditor, SoundWhenTyped
<1>2. threads \in Seq(Threads) /\ Sound(ui, threads) /\ Range(ui.rows) \subseteq DOMAIN threads
      /\ counts.sends \in Nat
  BY InvFacts
<1>3. CASE t \in Range(ui.rows)
  <2> DEFINE m == Message("user", n)
             next == StoreMessage(threads, t, m)
  <2>1. /\ threads' = next /\ active' = Touched(active, t)
        /\ runs' = [k \in DOMAIN runs \cup {n} |->
                      IF k = n THEN [thread |-> t, acted |-> FALSE, replies |-> 0] ELSE runs[k]]
        /\ ui' = blank /\ counts' = [counts EXCEPT !.sends = n] /\ phase' = phase
    BY <1>3 DEF Send, StoreLocalChatUserMessage
  <2>2. n \in Nat /\ m \in Messages /\ t \in DOMAIN threads /\ t \in Nat
    BY <1>2, <1>3, MessageTypes
  <2> HIDE DEF m
  <2>3. /\ Databases(next, Touched(active, t)) /\ next \in Seq(Threads)
        /\ Len(next) <= MaxThreads /\ Grown(threads, next) /\ Sound(ui, next)
    BY <2>2, Stores
  <2> HIDE DEF next
  <2>4. Sound(blank, next)
    BY <1>1, <2>3
  <2> HIDE DEF blank
  <2>5. counts' \in [sends : Nat, mails : Nat, faults : Nat] /\ counts'.sends = n
    BY <2>1, <2>2 DEF SessionInv
  <2>6. /\ runs' \in [DOMAIN runs' -> Runs]
        /\ DOMAIN runs' = DOMAIN runs \cup {n}
        /\ \A k \in DOMAIN runs' : runs'[k].thread \in DOMAIN threads
    BY <2>1, <2>2 DEF SessionInv, RunsOK, Runs
  <2>7. DOMAIN runs' \subseteq 1 .. counts'.sends
    BY <1>2, <2>5, <2>6 DEF SessionInv, RunsOK
  <2>8. phase' \in {"open", "quit", "dead"}
    BY <2>1 DEF SessionInv
  <2>. QED BY <2>1, <2>3, <2>4, <2>5, <2>6, <2>7, <2>8, StoreStep
<1>4. CASE t \notin Range(ui.rows)
  <2>1. UiOnly(blank)
    BY <1>4 DEF Send
  <2>. QED BY <1>1, <1>2, <2>1, ScreenStep
<1>. QED BY <1>3, <1>4

LEMMA KeyStep ==
  ASSUME SessionInv, KeyPress
  PROVE  SessionInv'
<1>1. /\ threads \in Seq(Threads) /\ Sound(ui, threads) /\ ui \in Sessions
      /\ CursorFits(ui.editor) /\ Len(ui.rows) \in Nat /\ Len(Personas) \in Nat
      /\ Len(Personas) > 0 /\ ui.picker \in Nat /\ ui.index \in Nat
  BY InvFacts, SomePersona DEF Sessions
<1>2. ASSUME NEW k, PickerKey(k) PROVE SessionInv'
  <2>1. ui.view = "inbox" /\ ui.picker # 0 /\ ui.picker \in 1 .. Len(Personas)
    BY <1>1, <1>2 DEF PickerKey, Sound
  <2>2. CASE Quit
    BY <2>2, QuitStep
  <2>3. ASSUME NEW i \in 0 .. Len(Personas), UiOnly([ui EXCEPT !.picker = i]) PROVE SessionInv'
    BY <1>1, <2>1, <2>3, SoundWhenPicking, ScreenStep
  <2>4. CASE UiOnly([ui EXCEPT !.picker = 0])
    <3>1. 0 \in 0 .. Len(Personas)
      BY <1>1
    <3>. QED BY <3>1, <2>3, <2>4
  <2>5. CASE ui.picker > 1 /\ UiOnly([ui EXCEPT !.picker = @ - 1])
    <3>1. ui.picker - 1 \in 0 .. Len(Personas)
      BY <1>1, <2>1
    <3>. QED BY <3>1, <2>3, <2>5
  <2>6. CASE ui.picker < Len(Personas) /\ UiOnly([ui EXCEPT !.picker = @ + 1])
    <3>1. ui.picker + 1 \in 0 .. Len(Personas)
      BY <1>1, <2>6
    <3>. QED BY <3>1, <2>3, <2>6
  <2>7. CASE NewThread(Personas[ui.picker])
    <3>1. Personas[ui.picker] \in Range(Personas)
      BY <2>1, SomePersona DEF Range
    <3>. QED BY <2>1, <2>7, <3>1, NewThreadStep
  <2>. QED BY <1>2, <2>2, <2>4, <2>5, <2>6, <2>7 DEF PickerKey
<1>3. ASSUME NEW k, ComposeKey(k) PROVE SessionInv'
  <2> DEFINE u == Typed(ui, Editor(ui.editor.text))
             edited == Edited(ui.editor, ComposeBinding(k), Printed(k))
  <2>1. Sound(u, threads)
    <3> DEFINE e == Editor(ui.editor.text)
    <3>1. e \in Editors /\ e.cursor = Len(e.text)
      BY <1>1 DEF Editor, CursorFits, Editors, Texts
    <3>2. e.cursor <= Len(e.text)
      BY <3>1 DEF Editors
    <3>. QED BY <1>1, <3>1, <3>2, SoundWhenTyped
  <2>2. CASE UiOnly(Closed(ui))
    BY <1>1, <2>2, SoundWhenClosed, ScreenStep
  <2>3. CASE UiOnly(Refreshed(u, threads, active))
    <3>1. Sound(Refreshed(u, threads, active), threads)
      BY <2>1, InvFacts, SoundWhenRefreshed
    <3>. QED BY <3>1, <2>3, ScreenStep
  <2>4. CASE UiOnly(u)
    BY <2>1, <2>4, ScreenStep
  <2>5. CASE Quit
    BY <2>5, QuitStep
  <2>6. CASE Send
    BY <2>6, SendStep
  <2>7. CASE UiOnly(Typed(ui, edited))
    <3>1. CursorFits(edited)
      BY <1>1, PrintedTypes, CursorStays
    <3>2. Sound(Typed(ui, edited), threads)
      BY <1>1, <3>1, SoundWhenTyped DEF CursorFits
    <3>. QED BY <3>2, <2>7, ScreenStep
  <2> HIDE DEF u, edited
  <2>8. \/ UiOnly(Closed(ui)) \/ UiOnly(Refreshed(u, threads, active)) \/ UiOnly(u)
        \/ Quit \/ Send \/ UiOnly(Typed(ui, edited))
    BY <1>3, Zenon DEF ComposeKey, u, edited
  <2>. QED BY <2>2, <2>3, <2>4, <2>5, <2>6, <2>7, <2>8
<1>4. ASSUME NEW k, InboxKey(k) PROVE SessionInv'
  <2>1. ui.view = "inbox" /\ ui.picker = 0
    BY <1>4 DEF InboxKey
  <2>2. CASE ui.index > 1 /\ UiOnly([ui EXCEPT !.index = @ - 1])
    <3>1. ui.index - 1 \in 1 .. Len(ui.rows)
      BY <1>1, <2>2 DEF Sound
    <3>2. Sound([ui EXCEPT !.index = ui.index - 1], threads)
      BY <1>1, <3>1, SoundWhenMoved
    <3>. QED BY <3>2, <2>2, ScreenStep
  <2>3. CASE ui.index < Len(ui.rows) /\ UiOnly([ui EXCEPT !.index = @ + 1])
    <3>1. ui.index + 1 \in 1 .. Len(ui.rows)
      BY <1>1, <2>3 DEF Sound
    <3>2. Sound([ui EXCEPT !.index = ui.index + 1], threads)
      BY <1>1, <3>1, SoundWhenMoved
    <3>. QED BY <3>2, <2>3, ScreenStep
  <2>4. CASE ui.index \in DOMAIN ui.rows /\ OpenRow
    BY <2>1, <2>4, OpenRowStep
  <2>5. CASE UiOnly([ui EXCEPT !.picker = 1])
    <3>1. 1 \in 0 .. Len(Personas)
      BY <1>1
    <3>. QED BY <1>1, <2>1, <2>5, <3>1, SoundWhenPicking, ScreenStep
  <2>6. CASE NewThread(Personas[1])
    <3>1. Personas[1] \in Range(Personas)
      BY <1>1, SomePersona DEF Range
    <3>. QED BY <2>1, <2>6, <3>1, NewThreadStep
  <2>7. CASE UiOnly(Refreshed(ui, threads, active))
    BY <2>7, RefreshStep
  <2>8. CASE Quit
    BY <2>8, QuitStep
  <2>. QED BY <1>4, <2>2, <2>3, <2>4, <2>5, <2>6, <2>7, <2>8 DEF InboxKey
<1>5. ASSUME NEW k, ThreadKey(k) PROVE SessionInv'
  <2>1. ui.view = "thread" /\ ui.mode = "command" /\ ui.readOnly
    BY <1>1, <1>5 DEF ThreadKey, Sound
  <2>2. CASE UiOnly([ui EXCEPT !.mode = IF ui.readOnly THEN @ ELSE "compose"])
    <3>1. [ui EXCEPT !.mode = IF ui.readOnly THEN @ ELSE "compose"] = ui
      BY <1>1, <2>1 DEF Sessions
    <3>. QED BY <1>1, <2>2, <3>1, ScreenStep
  <2>3. CASE UiOnly(Closed(ui))
    BY <1>1, <2>3, SoundWhenClosed, ScreenStep
  <2>4. CASE UiOnly(Refreshed(ui, threads, active))
    BY <2>4, RefreshStep
  <2>5. CASE Quit
    BY <2>5, QuitStep
  <2>. QED BY <1>5, <2>2, <2>3, <2>4, <2>5 DEF ThreadKey
<1>. QED BY <1>2, <1>3, <1>4, <1>5 DEF KeyPress

LEMMA MailStep ==
  ASSUME SessionInv, Mail
  PROVE  SessionInv'
<1> DEFINE m == Message("mail", 0)
<1>1. /\ counts' = [counts EXCEPT !.mails = @ + 1]
      /\ ui' = ui /\ runs' = runs /\ phase' = phase
  BY DEF Mail
<1>2. counts' \in [sends : Nat, mails : Nat, faults : Nat] /\ counts'.sends = counts.sends
  BY <1>1 DEF SessionInv
<1>3. /\ runs' \in [DOMAIN runs' -> Runs]
      /\ DOMAIN runs' \subseteq 1 .. counts'.sends
      /\ \A n \in DOMAIN runs' : runs'[n].thread \in DOMAIN threads
      /\ phase' \in {"open", "quit", "dead"}
  BY <1>1, <1>2 DEF SessionInv, RunsOK
<1>4. m \in Messages
  BY MessageTypes
<1> HIDE DEF m
<1>5. ASSUME NEW p \in Range(Personas), Len(threads) < MaxThreads,
             threads' = Append(threads, Thread(p, FALSE, m)),
             active' = Touched(active, Len(threads) + 1)
      PROVE  SessionInv'
  <2> DEFINE new == Thread(p, FALSE, m)
             store == Append(threads, new)
  <2>1. new \in Threads /\ new.log # <<>>
    BY <1>4, ThreadTypes
  <2>2. /\ threads \in Seq(Threads) /\ Databases(threads, active) /\ Sound(ui, threads)
        /\ Len(threads) \in Nat /\ DOMAIN threads = 1 .. Len(threads)
    BY InvFacts
  <2> HIDE DEF new
  <2>3. /\ Databases(store, Touched(active, Len(threads) + 1)) /\ Len(store) = Len(threads) + 1
        /\ \A k \in DOMAIN threads : store[k] = threads[k]
    BY <2>1, <2>2, ThreadStored
  <2>4. threads' = store
    BY <1>5 DEF new
  <2> HIDE DEF store
  <2>5. Grown(threads, store) /\ store \in Seq(Threads) /\ Len(store) <= MaxThreads
    BY <2>2, <2>3, <1>5, ChatBounds DEF Grown, Databases
  <2>6. Sound(ui, store)
    BY <2>2, <2>5, SoundWhenGrown
  <2>. QED BY <1>1, <1>2, <1>3, <1>5, <2>3, <2>4, <2>5, <2>6, StoreStep
<1>6. ASSUME NEW t \in DOMAIN threads,
             threads' = StoreMessage(threads, t, m), active' = Touched(active, t)
      PROVE  SessionInv'
  <2> DEFINE next == StoreMessage(threads, t, m)
  <2>1. /\ Databases(next, Touched(active, t))
        /\ Len(next) <= MaxThreads /\ Grown(threads, next) /\ Sound(ui, next)
    BY <1>4, Stores
  <2> HIDE DEF next
  <2>2. threads' = next
    BY <1>6 DEF next
  <2>. QED BY <1>1, <1>2, <1>3, <1>6, <2>1, <2>2, StoreStep
<1>. QED BY <1>5, <1>6 DEF Mail, m

\* A run has ended, over databases in which it stored what it did.
LEMMA AfterRunStep ==
  ASSUME SessionInv, NEW n \in DOMAIN runs,
         Databases(threads', active'), Len(threads') <= MaxThreads,
         Grown(threads, threads'), Sound(ui, threads'),
         AfterRun(n, threads', active'), counts' = counts
  PROVE  SessionInv'
<1>1. CASE phase = "open"
  <2>1. /\ ui' = Refreshed(ui, threads', active') /\ phase' = phase
        /\ runs' = [k \in DOMAIN runs \ {n} |-> runs[k]]
    BY <1>1 DEF AfterRun
  <2>2. Sound(ui', threads')
    BY <2>1, SoundWhenRefreshed
  <2>3. /\ runs' \in [DOMAIN runs' -> Runs]
        /\ DOMAIN runs' \subseteq 1 .. counts'.sends
        /\ \A k \in DOMAIN runs' : runs'[k].thread \in DOMAIN threads
    BY <2>1 DEF SessionInv, RunsOK
  <2>. QED BY <1>1, <2>1, <2>2, <2>3, StoreStep DEF SessionInv
<1>2. CASE phase # "open"
  <2>1. ui' = ui /\ phase' = "dead" /\ runs' = <<>>
    BY <1>2 DEF AfterRun
  <2>2. /\ runs' \in [DOMAIN runs' -> Runs] /\ DOMAIN runs' = {}
    BY <2>1
  <2>. QED BY <2>1, <2>2, StoreStep DEF SessionInv
<1>. QED BY <1>1, <1>2

\* A run that has called email.send goes on.
LEMMA RunActed ==
  ASSUME SessionInv, NEW n \in DOMAIN runs, RunActs(n)
  PROVE  /\ runs' \in [DOMAIN runs' -> Runs] /\ DOMAIN runs' = DOMAIN runs
         /\ \A k \in DOMAIN runs' : runs'[k].thread = runs[k].thread
         /\ \A k \in DOMAIN runs' : k # n => runs'[k] = runs[k]
         /\ runs'[n].acted
<1>1. runs \in [DOMAIN runs -> Runs] /\ runs[n] \in Runs
  BY DEF SessionInv, RunsOK
<1>2. PICK k \in Nat : runs' = Noted(n, k)
  BY <1>1 DEF RunActs, Runs
<1> DEFINE r == [thread |-> runs[n].thread, acted |-> TRUE, replies |-> k]
<1>3. r \in Runs /\ r.thread = runs[n].thread /\ r.acted /\ runs' = [runs EXCEPT ![n] = r]
  BY <1>1, <1>2 DEF Runs, Noted
<1> HIDE DEF r
<1>4. DOMAIN runs' = DOMAIN runs /\ \A j \in DOMAIN runs : runs'[j] = IF j = n THEN r ELSE runs[j]
  BY <1>1, <1>3
<1>5. runs' \in [DOMAIN runs' -> Runs]
  BY <1>1, <1>3, <1>4
<1>. QED BY <1>3, <1>4, <1>5

LEMMA RunsStep ==
  ASSUME SessionInv, RunStep
  PROVE  SessionInv'
<1> SUFFICES ASSUME NEW n \in DOMAIN runs, RunActs(n) \/ RunEnds(n) \/ RunFails(n)
             PROVE  SessionInv'
  BY DEF RunStep
<1> DEFINE t == ReplyThread(n)
           next(kind) == StoreMessage(threads, t, Message(kind, n))
<1>1. t \in DOMAIN threads /\ n \in Nat /\ counts.sends \in Nat
  BY InvFacts DEF SessionInv, RunsOK, ReplyThread
<1>3. ASSUME NEW kind \in {"reply", "final"}
      PROVE  /\ Databases(next(kind), Touched(active, t))
             /\ Len(next(kind)) <= MaxThreads /\ Grown(threads, next(kind)) /\ Sound(ui, next(kind))
  <2> DEFINE m == Message(kind, n)
  <2>1. m \in Messages
    BY <1>1, MessageTypes
  <2> HIDE DEF m
  <2>2. LET store == StoreMessage(threads, t, m)
        IN  /\ Databases(store, Touched(active, t))
            /\ Len(store) <= MaxThreads /\ Grown(threads, store) /\ Sound(ui, store)
    BY <1>1, <2>1, Stores
  <2>. QED BY <2>2 DEF m
<1>4. /\ Databases(threads, active) /\ Len(threads) <= MaxThreads
      /\ Grown(threads, threads) /\ Sound(ui, threads)
  BY InvFacts DEF SessionInv, Grown
<1> HIDE DEF next, t
<1>5. ASSUME RunActs(n) PROVE SessionInv'
  <2>1. /\ ui' = ui /\ phase' = phase /\ counts' = counts
        /\ \/ threads' = next("reply") /\ active' = Touched(active, t)
           \/ threads' = threads /\ active' = active
    BY <1>5 DEF RunActs, next, t
  <2>2. /\ runs' \in [DOMAIN runs' -> Runs]
        /\ DOMAIN runs' \subseteq 1 .. counts'.sends
        /\ \A k \in DOMAIN runs' : runs'[k].thread \in DOMAIN threads
    BY <1>5, <2>1, RunActed DEF SessionInv, RunsOK
  <2>3. /\ Databases(threads', active') /\ Len(threads') <= MaxThreads
        /\ Grown(threads, threads') /\ Sound(ui, threads')
    BY <1>3, <1>4, <2>1
  <2>. QED BY <2>1, <2>2, <2>3, StoreStep DEF SessionInv
<1>6. ASSUME RunEnds(n) PROVE SessionInv'
  <2>1. counts' = counts /\ AfterRun(n, threads', active')
    BY <1>6, Zenon DEF RunEnds
  <2>2. \/ threads' = threads /\ active' = active
        \/ threads' = next("final") /\ active' = Touched(active, t)
    BY <1>6 DEF RunEnds, next, t
  <2>3. CASE threads' = threads /\ active' = active
    BY <1>4, <2>1, <2>3, AfterRunStep
  <2>4. CASE threads' = next("final") /\ active' = Touched(active, t)
    BY <1>3, <2>1, <2>4, AfterRunStep
  <2>. QED BY <2>2, <2>3, <2>4
<1>7. ASSUME RunFails(n) PROVE SessionInv'
  <2>1. /\ threads' = threads /\ active' = active /\ counts' = counts
        /\ AfterRun(n, threads', active')
    BY <1>7 DEF RunFails
  <2>. QED BY <1>4, <2>1, AfterRunStep
<1>. QED BY <1>5, <1>6, <1>7

LEMMA ThrowStep ==
  ASSUME SessionInv, DatabaseThrows
  PROVE  SessionInv'
<1>1. /\ counts' = [counts EXCEPT !.faults = @ + 1] /\ phase' = "dead" /\ runs' = <<>>
      /\ threads' = threads /\ active' = active /\ ui' = ui
  BY DEF DatabaseThrows
<1>2. counts' \in [sends : Nat, mails : Nat, faults : Nat] /\ DOMAIN runs' = {}
  BY <1>1 DEF SessionInv
<1>. QED BY <1>1, <1>2 DEF SessionInv, RunsOK

LEMMA SessionInit ==
  ASSUME Init
  PROVE  SessionInv
<1> DEFINE seed(local) == Thread(Personas[1], local, Message("seed", 0))
<1>1. \A local \in BOOLEAN : seed(local) \in Threads /\ seed(local).log # <<>>
  <2> TAKE local \in BOOLEAN
  <2> DEFINE m == Message("seed", 0)
  <2>1. m \in Messages /\ Personas[1] \in Range(Personas)
    BY MessageTypes, SomePersona DEF Range
  <2> HIDE DEF m
  <2>2. Thread(Personas[1], local, m) \in Threads /\ Thread(Personas[1], local, m).log # <<>>
    BY <2>1, ThreadTypes
  <2>. QED BY <2>2 DEF m
<1>2. \/ threads = <<>>
      \/ \E local \in BOOLEAN : threads = <<seed(local)>>
  BY DEF Init
<1> HIDE DEF seed
<1>3. /\ threads \in Seq(Threads) /\ Len(threads) \in {0, 1} /\ DOMAIN threads = 1 .. Len(threads)
      /\ \A t \in DOMAIN threads : threads[t].log # <<>>
  <2>1. CASE threads = <<>>
    BY <2>1
  <2>2. ASSUME NEW local \in BOOLEAN, threads = <<seed(local)>>
        PROVE  /\ threads \in Seq(Threads) /\ Len(threads) \in {0, 1} /\ DOMAIN threads = 1 .. Len(threads)
               /\ \A t \in DOMAIN threads : threads[t].log # <<>>
    <3> DEFINE r == seed(local)
    <3>1. r \in Threads /\ r.log # <<>> /\ threads = <<r>>
      BY <1>1, <2>2
    <3> HIDE DEF r
    <3>. QED BY <3>1
  <2>. QED BY <1>2, <2>1, <2>2
<1>4. Databases(threads, active)
  <2>1. active = [t \in 1 .. Len(threads) |-> t]
    BY <1>3 DEF Init
  <2>2. active \in Seq(Nat) /\ DOMAIN active = 1 .. Len(threads) /\ \A t \in DOMAIN active : active[t] = t
    BY <1>3, <2>1, IsASeq
  <2>3. IsInjective(active) /\ Range(active) = 1 .. Len(threads)
    BY <2>2 DEF IsInjective, Range
  <2>. QED BY <1>3, <2>2, <2>3 DEF Databases
<1>5. Len(threads) <= MaxThreads
  BY <1>3, ChatBounds
<1> DEFINE u == Refreshed(Session, threads, active)
<1>6. Sound(Session, threads) /\ Session.picker = 0
  <2>1. /\ Session \in Sessions /\ Session.view = "inbox" /\ Session.selected = 0
        /\ Session.picker = 0 /\ Session.index = 1 /\ Session.rows = <<>>
        /\ Session.editor = Editor(<<>>)
    BY BlankEditor DEF Session, Sessions
  <2>2. Range(<<>>) = {}
    BY DEF Range
  <2>3. Len(Personas) \in Nat
    BY SomePersona
  <2>. QED BY <1>3, <2>1, <2>2, <2>3, BlankEditor DEF Sound, IsComposing
<1> HIDE DEF u
<1>7. Sound(u, threads) /\ u.picker = 0 /\ u.rows = Listed(threads, active)
  BY <1>4, <1>6, SoundWhenRefreshed DEF u
<1>8. \A t \in DOMAIN threads : t \in Range(u.rows)
  <2> SUFFICES ASSUME NEW t \in DOMAIN threads PROVE t \in Range(u.rows)
    OBVIOUS
  <2>1. t = 1 /\ Len(threads) = 1 /\ DOMAIN threads = {1}
    BY <1>3
  <2>2. Range(active) = {1} /\ active \in Seq(Nat)
    BY <1>4, <2>1 DEF Databases
  <2>3. active # <<>> /\ active[1] \in Range(active)
    <3>1. \E i \in DOMAIN active : active[i] = 1
      BY <2>2 DEF Range
    <3>2. Len(active) \in Nat /\ DOMAIN active = 1 .. Len(active) /\ DOMAIN active # {}
      BY <2>2, <3>1
    <3>3. 1 \in DOMAIN active
      BY <3>2
    <3>. QED BY <3>2, <3>3 DEF Range
  <2>. QED BY <1>4, <1>7, <2>1, <2>2, <2>3, InboxRows
<1>9. Sound(ui, threads)
  <2>1. \/ ui = u
        \/ \E t \in DOMAIN threads : ui = Opened(u, t, ReadOnly(threads, t))
    BY DEF Init, u
  <2>2. ASSUME NEW t \in DOMAIN threads PROVE Sound(Opened(u, t, ReadOnly(threads, t)), threads)
    <3>1. ReadOnly(threads, t) \in BOOLEAN /\ (ReadOnly(threads, t) <=> ~threads[t].local)
      BY DEF ReadOnly
    <3>. QED BY <1>3, <1>7, <1>8, <3>1, SoundWhenOpened
  <2>. QED BY <1>7, <2>1, <2>2
<1>10. /\ runs = <<>> /\ phase = "open" /\ counts = [sends |-> 0, mails |-> 0, faults |-> 0]
       /\ DOMAIN runs = {}
  BY DEF Init
<1>11. RunsOK
  BY <1>10 DEF RunsOK
<1>12. counts \in [sends : Nat, mails : Nat, faults : Nat]
  BY <1>10
<1>. QED BY <1>4, <1>5, <1>9, <1>10, <1>11, <1>12 DEF SessionInv

LEMMA SessionSteps ==
  ASSUME SessionInv, [Next]_vars
  PROVE  SessionInv'
<1>1. CASE Next
  <2>1. CASE Poll
    BY <2>1, RefreshStep DEF Poll
  <2>. QED BY <1>1, <2>1, KeyStep, MailStep, RunsStep, ThrowStep DEF Next
<1>2. CASE UNCHANGED vars
  BY <1>2 DEF vars, SessionInv, RunsOK
<1>. QED BY <1>1, <1>2

\* The session that is proved about is the one the runs check.
LEMMA SessionTypes ==
  ASSUME SessionInv
  PROVE  TypeOK
<1>1. /\ threads \in Seq(Threads) /\ DOMAIN threads = 1 .. Len(threads) /\ Len(threads) \in Nat
      /\ \A t \in DOMAIN threads : threads[t].persona \in Range(Personas) /\ threads[t].log # <<>>
  <2>1. \A t \in DOMAIN threads : threads[t] \in Threads
    BY InvFacts
  <2>. QED BY <2>1, InvFacts DEF Databases, Threads
<1>2. Range(active) = DOMAIN threads /\ Len(active) = Len(threads)
  <2>1. active \in Seq(Nat) /\ IsInjective(active) /\ Range(active) = 1 .. Len(threads)
    BY InvFacts DEF Databases
  <2>2. Cardinality(1 .. Len(threads)) = Len(threads)
    <3>1. 1 \in Int /\ Len(threads) \in Int
      BY <1>1
    <3>2. Cardinality(1 .. Len(threads)) = IF 1 > Len(threads) THEN 0 ELSE Len(threads) - 1 + 1
      BY <3>1, FS_Interval
    <3>. QED BY <1>1, <3>2
  <2>. QED BY <1>1, <2>1, <2>2, InjectiveLength
<1>3. /\ ui \in Sessions /\ Sound(ui, threads) /\ Len(Personas) \in Nat
      /\ Len(ui.rows) \in Nat /\ DOMAIN ui.rows = 1 .. Len(ui.rows)
  BY InvFacts, SomePersona DEF Sessions
<1>4. /\ ui.selected \in 0 .. Len(threads) /\ ui.picker \in 0 .. Len(Personas)
      /\ ui.index = 1 \/ ui.index \in DOMAIN ui.rows
      /\ ui.view \in {"inbox", "thread"} /\ ui.mode \in {"command", "compose"}
  BY <1>1, <1>3 DEF Sound, Sessions
<1>5. ui.editor.cursor \in 0 .. Len(ui.editor.text)
  <2>1. ui.editor.cursor \in Nat /\ Len(ui.editor.text) \in Nat
        /\ ui.editor.cursor <= Len(ui.editor.text)
    BY InvFacts DEF CursorFits, Editors, Texts
  <2>. QED BY <2>1
<1>6. Len(threads) <= MaxThreads /\ phase \in {"open", "quit", "dead"}
      /\ DOMAIN runs \subseteq 1 .. counts.sends
  BY DEF SessionInv, RunsOK
<1>. QED BY <1>1, <1>2, <1>4, <1>5, <1>6 DEF TypeOK

\* However the keys, the polls, the runs and the gateway interleave, threads,
\* lists, editor and runs fit each other: the lists hold threads that are
\* stored, each once, and the cursor is in the text.
THEOREM TypeCorrect == Spec => []TypeOK
<1>1. Init => SessionInv
  BY SessionInit
<1>2. SessionInv /\ [Next]_vars => SessionInv'
  BY SessionSteps
<1>3. SessionInv => TypeOK
  BY SessionTypes
<1>. QED BY <1>1, <1>2, <1>3, PTL DEF Spec

\* The editor is open only in a thread that began in the chat and that the
\* session still lists or newer threads have pushed off, for any limit of the
\* inbox; what it shows is the draft that would be sent.
THEOREM ComposeIsSafeHolds == Spec => []ComposeIsSafe
<1>1. Init => SessionInv
  BY SessionInit
<1>2. SessionInv /\ [Next]_vars => SessionInv'
  BY SessionSteps
<1>3. SessionInv => ComposeIsSafe
  <2> SUFFICES ASSUME SessionInv PROVE ComposeIsSafe
    OBVIOUS
  <2>1. Sound(ui, threads)
    BY InvFacts
  <2>. QED BY <2>1 DEF ComposeIsSafe, Composing, Sound, IsComposing, Writable, OfPersona
<1>. QED BY <1>1, <1>2, <1>3, PTL DEF Spec

-----------------------------------------------------------------------------
(* Replies. *)

LEMMA LogAppended ==
  ASSUME NEW log \in Seq(Messages), RepliesFit(log), NEW m \in Messages, Fitting(log, m)
  PROVE  RepliesFit(Append(log, m))
<1> DEFINE next == Append(log, m)
           n == Len(log)
<1>1. /\ n \in Nat /\ DOMAIN log = 1 .. n /\ DOMAIN next = 1 .. n + 1
      /\ next[n + 1] = m /\ \A i \in 1 .. n : next[i] = log[i]
  BY AppendProperties
<1>2. \A i \in DOMAIN log : log[i] \in Range(log)
  BY DEF Range
<1> HIDE DEF next, n
<1>3. ASSUME NEW i \in DOMAIN next, Answers(next[i], next[i].send)
      PROVE  \E j \in 1 .. i : next[j] = Message("user", next[i].send)
  <2>1. CASE i \in 1 .. n
    <3>1. next[i] = log[i] /\ i \in DOMAIN log /\ Answers(log[i], log[i].send)
      BY <1>1, <1>3, <2>1
    <3>2. PICK j \in 1 .. i : log[j] = Message("user", log[i].send)
      BY <3>1 DEF RepliesFit
    <3>3. j \in 1 .. n
      BY <1>1, <2>1, <3>2
    <3>. QED BY <1>1, <3>1, <3>2, <3>3
  <2>2. CASE i = n + 1
    <3>1. next[i] = m /\ Answers(m, m.send)
      BY <1>1, <1>3, <2>2
    <3>2. PICK j \in DOMAIN log : log[j] = Message("user", m.send)
      BY <3>1 DEF Fitting, Range
    <3>3. j \in 1 .. i /\ next[j] = Message("user", next[i].send)
      BY <1>1, <2>2, <3>1, <3>2
    <3>. QED BY <3>3
  <2>. QED BY <1>1, <2>1, <2>2
<1>4. ASSUME NEW i \in DOMAIN next, next[i].kind = "final",
             NEW k \in DOMAIN next, Answers(next[k], next[i].send)
      PROVE  k = i
  <2>1. CASE i \in 1 .. n
    <3>1. next[i] = log[i] /\ i \in DOMAIN log /\ log[i].kind = "final" /\ log[i] \in Range(log)
      BY <1>1, <1>2, <1>4, <2>1
    <3>2. CASE k = n + 1
      <4>1. Answers(m, log[i].send)
        BY <1>1, <1>4, <3>1, <3>2
      <4>2. m.send = log[i].send
        BY <4>1 DEF Answers
      <4>3. Finished(log, m.send) /\ Answers(m, m.send)
        BY <3>1, <4>1, <4>2 DEF Finished
      <4>. QED BY <4>3 DEF Fitting
    <3>3. CASE k \in 1 .. n
      <4>1. next[k] = log[k] /\ k \in DOMAIN log /\ Answers(log[k], log[i].send)
        BY <1>1, <1>4, <3>1, <3>3
      <4>. QED BY <3>1, <4>1 DEF RepliesFit
    <3>. QED BY <1>1, <3>2, <3>3
  <2>2. CASE i = n + 1
    <3>1. next[i] = m /\ m.kind = "final"
      BY <1>1, <1>4, <2>2
    <3>2. ASSUME k \in 1 .. n PROVE FALSE
      <4>1. log[k] \in Range(log) /\ Answers(log[k], m.send)
        BY <1>1, <1>2, <1>4, <3>1, <3>2
      <4>2. Answered(log, m.send)
        BY <4>1 DEF Answered
      <4>. QED BY <3>1, <4>2 DEF Fitting
    <3>. QED BY <1>1, <2>2, <3>2
  <2>. QED BY <1>1, <2>1, <2>2
<1>5. RepliesFit(next)
  BY <1>3, <1>4 DEF RepliesFit
<1>. QED BY <1>5 DEF next

\* A message is stored: one of mail, a text from an editor, or an answer.
LEMMA LogsStored ==
  ASSUME SessionInv, RepliesInv, SessionInv', NEW t \in DOMAIN threads, NEW m \in Messages,
         StoredIn(threads, t, m, threads'),
         m.send <= counts'.sends, counts.sends <= counts'.sends,
         m.kind = "user" => threads[t].local, Fitting(threads[t].log, m)
  PROVE  /\ \A k \in DOMAIN threads' : LogFits(threads'[k], counts'.sends)
         /\ Range(threads'[t].log) = Range(threads[t].log) \cup {m}
         /\ \A k \in DOMAIN threads : k # t => threads'[k].log = threads[k].log
<1>1. /\ threads \in Seq(Threads) /\ threads' \in Seq(Threads) /\ Len(threads') = Len(threads)
      /\ DOMAIN threads = 1 .. Len(threads) /\ DOMAIN threads' = 1 .. Len(threads')
  BY InvFacts DEF SessionInv, Databases, StoredIn
<1>2. /\ counts.sends \in Nat /\ counts'.sends \in Nat
      /\ counts.sends <= counts'.sends
  BY DEF SessionInv
<1> DEFINE log == threads[t].log
<1>3. log \in Seq(Messages) /\ threads'[t].log = Append(log, m) /\ threads'[t].local = threads[t].local
  <2>1. threads[t] \in Threads
    BY <1>1
  <2>. QED BY <2>1 DEF StoredIn, Threads
<1>4. /\ RepliesFit(log)
      /\ \A i \in DOMAIN log : log[i].send <= counts.sends /\ (log[i].kind = "user" => threads[t].local)
 BY DEF RepliesInv, LogFits
<1>5. (m.kind = "user" => threads[t].local) /\ Fitting(log, m)
  OBVIOUS
<1> HIDE DEF log
<1>6. Range(Append(log, m)) = Range(log) \cup {m} /\ RepliesFit(Append(log, m))
  BY <1>3, <1>4, <1>5, RangeOfAppend, LogAppended
<1>7. LogFits(threads'[t], counts'.sends)
  <2> DEFINE next == threads'[t].log
  <2>1. /\ DOMAIN log = 1 .. Len(log) /\ DOMAIN next = 1 .. Len(log) + 1 /\ Len(log) \in Nat
        /\ next[Len(log) + 1] = m /\ \A i \in 1 .. Len(log) : next[i] = log[i]
    BY <1>3, AppendProperties
  <2>2. RepliesFit(next)
    BY <1>3, <1>6
  <2> HIDE DEF next
  <2>3. ASSUME NEW i \in DOMAIN next
        PROVE  next[i].send <= counts'.sends /\ (next[i].kind = "user" => threads[t].local)
    <3>1. CASE i = Len(log) + 1
      BY <1>5, <2>1, <3>1
    <3>2. CASE i \in 1 .. Len(log)
      <4>1. next[i] = log[i] /\ log[i].send \in Nat
        <5>1. next[i] = log[i] /\ log[i] \in Messages
          BY <1>3, <2>1, <3>2
        <5>. QED BY <5>1 DEF Messages
      <4>2. log[i].send <= counts.sends /\ (log[i].kind = "user" => threads[t].local)
        BY <1>4, <2>1, <3>2
      <4>. QED BY <1>2, <4>1, <4>2
    <3>. QED BY <2>1, <3>1, <3>2
  <2>. QED BY <1>3, <2>2, <2>3 DEF LogFits, next
<1>8. ASSUME NEW k \in DOMAIN threads, k # t PROVE LogFits(threads'[k], counts'.sends)
  <2>1. threads'[k].log = threads[k].log /\ threads'[k].local = threads[k].local
    BY <1>8 DEF StoredIn
  <2>2. threads[k].log \in Seq(Messages)
    <3>1. threads[k] \in Threads
      BY <1>1
    <3>. QED BY <3>1 DEF Threads
  <2>3. \A i \in DOMAIN threads[k].log : threads[k].log[i].send \in Nat
    <3>1. \A i \in DOMAIN threads[k].log : threads[k].log[i] \in Messages
      BY <2>2
    <3>. QED BY <3>1 DEF Messages
  <2>4. /\ RepliesFit(threads[k].log)
        /\ \A i \in DOMAIN threads[k].log :
             threads[k].log[i].send <= counts.sends /\ (threads[k].log[i].kind = "user" => threads[k].local)
    BY DEF RepliesInv, LogFits
  <2>. QED BY <1>2, <2>1, <2>3, <2>4 DEF LogFits
<1>9. DOMAIN threads' = DOMAIN threads
  BY <1>1
<1>10. \A k \in DOMAIN threads' : LogFits(threads'[k], counts'.sends)
  BY <1>7, <1>8, <1>9
<1>11. \A k \in DOMAIN threads : k # t => threads'[k].log = threads[k].log
  BY DEF StoredIn
<1>. QED BY <1>3, <1>6, <1>10, <1>11 DEF log

\* A run goes on after a message was stored that does not end it.
Follows(m, n) ==
  /\ runs'[n].thread = runs[n].thread
  /\ ~ (m.kind = "final" /\ m.send = n)
  /\ ~runs'[n].acted => ~runs[n].acted /\ ~Answers(m, n)

\* Runs that go on are in their threads still.
LEMMA RunsStay ==
  ASSUME SessionInv, RepliesInv, NEW t \in DOMAIN threads, NEW m,
         Range(threads'[t].log) = Range(threads[t].log) \cup {m},
         \A k \in DOMAIN threads : k # t => threads'[k].log = threads[k].log,
         NEW n \in DOMAIN runs, Follows(m, n)
  PROVE  RunFits(n)'
<1>1. RunFits(n) /\ runs[n].thread \in DOMAIN threads
  BY DEF SessionInv, RunsOK, RepliesInv
<1>2. CASE runs[n].thread = t
  <2> DEFINE log == threads[t].log
             next == threads'[t].log
  <2>1. /\ Message("user", n) \in Range(log) /\ ~Finished(log, n)
        /\ ~runs[n].acted => ~Answered(log, n)
    BY <1>1, <1>2 DEF RunFits
  <2>2. /\ runs'[n].thread = t /\ ~ (m.kind = "final" /\ m.send = n)
        /\ ~runs'[n].acted => ~runs[n].acted /\ ~Answers(m, n)
    BY <1>2 DEF Follows
  <2>3. Range(next) = Range(log) \cup {m}
    OBVIOUS
  <2> HIDE DEF log, next
  <2>4. Message("user", n) \in Range(next) /\ ~Finished(next, n)
    BY <2>1, <2>2, <2>3 DEF Finished
  <2>5. ~runs'[n].acted => ~Answered(next, n)
    BY <2>1, <2>2, <2>3 DEF Answered
  <2>. QED BY <2>2, <2>4, <2>5 DEF RunFits, next
<1>3. CASE runs[n].thread # t
  <2>1. threads'[runs'[n].thread].log = threads[runs[n].thread].log
    BY <1>1, <1>3 DEF Follows
  <2>2. ~runs'[n].acted => ~runs[n].acted
    BY DEF Follows
  <2>. QED BY <1>1, <2>1, <2>2 DEF RunFits
<1>. QED BY <1>2, <1>3

\* The databases are as they were, and no run begins.
LEMMA RepliesWhenStill ==
  ASSUME SessionInv, RepliesInv, threads' = threads, counts'.sends = counts.sends,
         DOMAIN runs' \subseteq DOMAIN runs,
         \A n \in DOMAIN runs' : runs'[n] = runs[n]
  PROVE  RepliesInv'
<1>1. \A n \in DOMAIN runs' : RunFits(n)'
  BY DEF RepliesInv, RunFits
<1>2. \A t \in DOMAIN threads' : LogFits(threads'[t], counts'.sends)
  BY DEF RepliesInv
<1>. QED BY <1>1, <1>2 DEF RepliesInv

\* A message that is no text is stored, and no run begins.
LEMMA RepliesWhenStored ==
  ASSUME SessionInv, RepliesInv, SessionInv', NEW t \in DOMAIN threads, NEW m \in Messages,
         StoredIn(threads, t, m, threads'),
         m.send <= counts.sends, counts.sends = counts'.sends, m.kind # "user",
         Fitting(threads[t].log, m),
         DOMAIN runs' \subseteq DOMAIN runs, \A n \in DOMAIN runs' : Follows(m, n)
  PROVE  RepliesInv'
<1>1. counts'.sends <= counts'.sends
  BY DEF SessionInv
<1>2. /\ \A k \in DOMAIN threads' : LogFits(threads'[k], counts'.sends)
      /\ Range(threads'[t].log) = Range(threads[t].log) \cup {m}
      /\ \A k \in DOMAIN threads : k # t => threads'[k].log = threads[k].log
  BY <1>1, LogsStored
<1>3. \A n \in DOMAIN runs' : RunFits(n)'
  <2> SUFFICES ASSUME NEW n \in DOMAIN runs' PROVE RunFits(n)'
    OBVIOUS
  <2>1. n \in DOMAIN runs /\ Follows(m, n)
    OBVIOUS
  <2>. QED BY <1>2, <2>1, RunsStay
<1>. QED BY <1>2, <1>3 DEF RepliesInv

\* A thread is stored with its first message, which is no text.
LEMMA RepliesWhenAdded ==
  ASSUME SessionInv, RepliesInv, NEW thread \in Threads, NEW m \in Messages, thread.log = <<m>>,
         threads' = Append(threads, thread), m.kind \in {"seed", "mail"}, m.send = 0,
         counts'.sends = counts.sends, runs' = runs
  PROVE  RepliesInv'
<1>1. /\ threads \in Seq(Threads) /\ DOMAIN threads = 1 .. Len(threads) /\ Len(threads) \in Nat
      /\ counts.sends \in Nat
  BY InvFacts
<1>2. /\ DOMAIN threads' = 1 .. Len(threads) + 1 /\ threads'[Len(threads) + 1] = thread
      /\ \A t \in DOMAIN threads : threads'[t] = threads[t]
  BY <1>1, AppendProperties
<1>3. LogFits(thread, counts.sends)
  <2>1. \A i \in DOMAIN thread.log : thread.log[i] = m
    OBVIOUS
  <2>2. 0 <= counts.sends
    BY <1>1
  <2>3. RepliesFit(thread.log)
    BY <2>1 DEF RepliesFit, Answers
  <2>. QED BY <2>1, <2>2, <2>3 DEF LogFits
<1>4. ASSUME NEW t \in DOMAIN threads' PROVE LogFits(threads'[t], counts'.sends)
  <2>1. CASE t = Len(threads) + 1
    BY <1>2, <1>3, <2>1
  <2>2. CASE t \in DOMAIN threads
    BY <1>2, <2>2 DEF RepliesInv
  <2>. QED BY <1>1, <1>2, <2>1, <2>2
<1>5. \A n \in DOMAIN runs' : RunFits(n)'
  <2> SUFFICES ASSUME NEW n \in DOMAIN runs PROVE RunFits(n)'
    OBVIOUS
  <2>1. RunFits(n) /\ runs[n].thread \in DOMAIN threads
    BY DEF RepliesInv, SessionInv, RunsOK
  <2>2. threads'[runs[n].thread] = threads[runs[n].thread]
    BY <1>2, <2>1
  <2>. QED BY <2>1, <2>2 DEF RunFits
<1>. QED BY <1>4, <1>5 DEF RepliesInv

LEMMA ScreenKeepsReplies ==
  ASSUME SessionInv, RepliesInv, UNCHANGED <<threads, runs, counts>>
  PROVE  RepliesInv'
  BY RepliesWhenStill

LEMMA NewThreadKeepsReplies ==
  ASSUME SessionInv, RepliesInv, NEW p \in Range(Personas), NewThread(p)
  PROVE  RepliesInv'
<1> DEFINE m == Message("seed", 0)
<1>1. m \in Messages /\ m.kind = "seed" /\ m.send = 0
  BY MessageTypes
<1>2. /\ threads' = Append(threads, CreateLocalChatThreadSeed(p))
      /\ counts' = counts /\ runs' = runs
  BY DEF NewThread
<1>3. CreateLocalChatThreadSeed(p) = Thread(p, TRUE, m)
  BY DEF CreateLocalChatThreadSeed
<1> HIDE DEF m
<1>4. CreateLocalChatThreadSeed(p) \in Threads /\ CreateLocalChatThreadSeed(p).log = <<m>>
  <2>1. Thread(p, TRUE, m) \in Threads /\ Thread(p, TRUE, m).log = <<m>>
    BY <1>1, ThreadTypes
  <2>. QED BY <1>3, <2>1
<1>. QED BY <1>1, <1>2, <1>4, RepliesWhenAdded

\* A text is stored in a thread that began in the chat, and its number is new.
LEMMA SendKeepsReplies ==
  ASSUME SessionInv, RepliesInv, SessionInv', Composing, Send
  PROVE  RepliesInv'
<1>0. PICK n \in Nat : n = counts.sends + 1
  BY InvFacts
<1> DEFINE m == Message("user", n)
<1>1. counts.sends \in Nat /\ n <= n /\ counts.sends <= n /\ ~ (n <= counts.sends)
  BY <1>0, InvFacts
<1>2. PICK t \in DOMAIN threads : t = ui.selected /\ threads[t].local
  BY InvFacts DEF Composing, Sound, IsComposing, Writable
<1>3. m \in Messages /\ m.kind = "user" /\ m.send = n /\ \A k : ~Answers(m, k)
  BY <1>1, MessageTypes DEF Answers
<1>4. CASE t \in Range(ui.rows)
  <2>0. threads \in Seq(Threads) /\ Databases(threads, active)
    BY InvFacts
  <2>1. /\ threads' = StoreMessage(threads, t, m)
        /\ runs' = [k \in DOMAIN runs \cup {n} |->
                      IF k = n THEN [thread |-> t, acted |-> FALSE, replies |-> 0] ELSE runs[k]]
        /\ counts' = [counts EXCEPT !.sends = n]
    BY <1>0, <1>2, <1>4 DEF Send, StoreLocalChatUserMessage
  <2> HIDE DEF m
  <2>2. StoredIn(threads, t, m, threads')
    BY <2>0, <1>3, <2>1, MessageStored
  <2>3. counts'.sends = n
    BY <2>1 DEF SessionInv
  <2>4. /\ \A k \in DOMAIN threads' : LogFits(threads'[k], counts'.sends)
        /\ Range(threads'[t].log) = Range(threads[t].log) \cup {m}
        /\ \A k \in DOMAIN threads : k # t => threads'[k].log = threads[k].log
    <3>1. /\ m.send <= counts'.sends /\ counts.sends <= counts'.sends
          /\ m.kind = "user" => threads[t].local
      BY <1>1, <1>2, <1>3, <2>3
    <3>2. Fitting(threads[t].log, m)
      BY <1>3 DEF Fitting
    <3>. QED BY <1>2, <1>3, <2>2, <3>1, <3>2, LogsStored
  <2>5. n \notin DOMAIN runs
    BY <1>1 DEF SessionInv, RunsOK
  <2>6. ASSUME NEW k \in DOMAIN runs PROVE RunFits(k)'
    <3>1. runs'[k] = runs[k]
      BY <2>1, <2>5
    <3>3. Follows(m, k)
      BY <1>3, <3>1 DEF Follows
    <3>. QED BY <1>2, <2>4, <3>3, RunsStay
  <2>7. RunFits(n)'
    <3>1. runs'[n].thread = t /\ m \in Range(threads'[t].log)
      BY <2>1, <2>4
    <3>2. \A k \in Range(threads[t].log) : k.send # n
      <4>1. \A i \in DOMAIN threads[t].log : threads[t].log[i].send <= counts.sends
        BY <1>2 DEF RepliesInv, LogFits
      <4>. QED BY <1>1, <4>1 DEF Range
    <3>3. ~Answered(threads'[t].log, n) /\ ~Finished(threads'[t].log, n)
      BY <1>3, <2>4, <3>2 DEF Answered, Finished, Answers
    <3>. QED BY <3>1, <3>3 DEF RunFits, m
  <2>. QED BY <2>1, <2>4, <2>6, <2>7 DEF RepliesInv
<1>5. CASE t \notin Range(ui.rows)
  BY <1>2, <1>5, ScreenKeepsReplies DEF Send, UiOnly
<1>. QED BY <1>4, <1>5

LEMMA KeysKeepReplies ==
  ASSUME SessionInv, RepliesInv, SessionInv', KeyPress
  PROVE  RepliesInv'
<1>1. \/ UNCHANGED <<threads, runs, counts>>
      \/ Composing /\ Send
      \/ \E i \in DOMAIN Personas : NewThread(Personas[i])
  <2>1. /\ \A u : UiOnly(u) => UNCHANGED <<threads, runs, counts>>
        /\ Quit => UNCHANGED <<threads, runs, counts>>
        /\ OpenRow => UNCHANGED <<threads, runs, counts>>
    BY DEF UiOnly, Quit, OpenRow
  <2>2. ASSUME NEW k, PickerKey(k)
        PROVE  \/ UNCHANGED <<threads, runs, counts>>
               \/ \E i \in DOMAIN Personas : NewThread(Personas[i])
    <3>1. ui.picker \in DOMAIN Personas
      <4>1. ui.picker \in Nat /\ ui.picker <= Len(Personas) /\ ui.picker # 0
        BY <2>2, InvFacts DEF PickerKey, Sound, Sessions
      <4>2. DOMAIN Personas = 1 .. Len(Personas) /\ Len(Personas) \in Nat
        BY SomePersona
      <4>. QED BY <4>1, <4>2
    <3>. QED BY <2>1, <2>2, <3>1 DEF PickerKey
  <2>3. ASSUME NEW k, ComposeKey(k)
        PROVE  UNCHANGED <<threads, runs, counts>> \/ (Composing /\ Send)
    BY <2>1, <2>3, Zenon DEF ComposeKey
  <2>4. ASSUME NEW k, InboxKey(k)
        PROVE  \/ UNCHANGED <<threads, runs, counts>>
               \/ \E i \in DOMAIN Personas : NewThread(Personas[i])
    <3>1. 1 \in DOMAIN Personas
      BY SomePersona
    <3>. QED BY <2>1, <2>4, <3>1 DEF InboxKey
  <2>5. ASSUME NEW k, ThreadKey(k) PROVE UNCHANGED <<threads, runs, counts>>
    BY <2>1, <2>5 DEF ThreadKey
  <2>. QED BY <2>2, <2>3, <2>4, <2>5 DEF KeyPress
<1>2. ASSUME NEW i \in DOMAIN Personas, NewThread(Personas[i]) PROVE RepliesInv'
  BY <1>2, NewThreadKeepsReplies DEF Range
<1>. QED BY <1>1, <1>2, ScreenKeepsReplies, SendKeepsReplies

LEMMA MailKeepsReplies ==
  ASSUME SessionInv, RepliesInv, SessionInv', Mail
  PROVE  RepliesInv'
<1> DEFINE m == Message("mail", 0)
<1>1. m \in Messages /\ m.kind = "mail" /\ m.send = 0
  BY MessageTypes
<1>2. counts'.sends = counts.sends /\ runs' = runs /\ counts.sends \in Nat
  BY InvFacts DEF Mail, SessionInv
<1> HIDE DEF m
<1>3. ASSUME NEW p \in Range(Personas), threads' = Append(threads, Thread(p, FALSE, m))
      PROVE  RepliesInv'
  <2>1. Thread(p, FALSE, m) \in Threads /\ Thread(p, FALSE, m).log = <<m>>
    BY <1>1, ThreadTypes
  <2>. QED BY <1>1, <1>2, <1>3, <2>1, RepliesWhenAdded
<1>4. ASSUME NEW t \in DOMAIN threads, threads' = StoreMessage(threads, t, m)
      PROVE  RepliesInv'
  <2>1. StoredIn(threads, t, m, threads')
    BY <1>1, <1>4, InvFacts, MessageStored
  <2>2. m.send <= counts.sends /\ m.kind # "user" /\ Fitting(threads[t].log, m)
    BY <1>1, <1>2 DEF Fitting, Answers
  <2>3. \A n \in DOMAIN runs' : Follows(m, n)
    BY <1>1, <1>2 DEF Follows, Answers
  <2>. QED BY <1>1, <1>2, <2>1, <2>2, <2>3, RepliesWhenStored
<1>. QED BY <1>3, <1>4 DEF Mail, m

\* What a run stores is in the thread its text is in; a final response is
\* its last, and there only if email.send was not called.
LEMMA RunsKeepReplies ==
  ASSUME SessionInv, RepliesInv, SessionInv', RunStep
  PROVE  RepliesInv'
<1> SUFFICES ASSUME NEW n \in DOMAIN runs, RunActs(n) \/ RunEnds(n) \/ RunFails(n)
             PROVE  RepliesInv'
  BY DEF RunStep
<1> DEFINE t == ReplyThread(n)
           log == threads[t].log
<1>1. /\ t = runs[n].thread /\ t \in DOMAIN threads /\ n \in Nat /\ n <= counts.sends
      /\ RunFits(n) /\ counts.sends \in Nat
  BY InvFacts DEF SessionInv, RunsOK, ReplyThread, RepliesInv
<1>2. /\ Message("user", n) \in Range(log) /\ ~Finished(log, n)
      /\ ~runs[n].acted => ~Answered(log, n)
  BY <1>1 DEF RunFits
<1> HIDE DEF t
<1>3. ASSUME NEW kind \in {"reply", "final"}, kind = "final" => ~runs[n].acted,
             threads' = StoreMessage(threads, t, Message(kind, n)), counts' = counts,
             DOMAIN runs' \subseteq DOMAIN runs,
             \A k \in DOMAIN runs' : runs'[k].thread = runs[k].thread,
             \A k \in DOMAIN runs' : k # n => runs'[k] = runs[k],
             n \in DOMAIN runs' => runs'[n].acted /\ kind # "final"
      PROVE  RepliesInv'
  <2> DEFINE m == Message(kind, n)
  <2>1. m \in Messages /\ m.kind = kind /\ m.send = n
    BY <1>1, MessageTypes
  <2> HIDE DEF m
  <2>2. threads' = StoreMessage(threads, t, m)
    BY <1>3 DEF m
  <2>3. StoredIn(threads, t, m, threads')
    BY <1>1, <2>1, <2>2, InvFacts, MessageStored
  <2>4. Fitting(log, m)
    BY <1>2, <1>3, <2>1 DEF Fitting
  <2>5. \A k \in DOMAIN runs' : Follows(m, k)
    BY <1>3, <2>1 DEF Follows, Answers
  <2>6. m.send <= counts.sends /\ counts.sends = counts'.sends /\ m.kind # "user"
    BY <1>1, <1>3, <2>1
  <2>7. t \in DOMAIN threads /\ DOMAIN runs' \subseteq DOMAIN runs
    BY <1>1, <1>3
  <2>. QED BY <2>1, <2>3, <2>4, <2>5, <2>6, <2>7, RepliesWhenStored
<1> HIDE DEF log
<1>4. ASSUME RunActs(n) PROVE RepliesInv'
  <2>1. /\ counts' = counts
        /\ \/ threads' = StoreMessage(threads, t, Message("reply", n))
           \/ threads' = threads
    BY <1>4 DEF RunActs, t
  <2>2. /\ DOMAIN runs' = DOMAIN runs
        /\ \A k \in DOMAIN runs' : runs'[k].thread = runs[k].thread
        /\ \A k \in DOMAIN runs' : k # n => runs'[k] = runs[k]
        /\ runs'[n].acted
    BY <1>4, RunActed
  <2>3. CASE threads' = StoreMessage(threads, t, Message("reply", n))
    BY <1>3, <2>1, <2>2, <2>3
  <2>4. CASE threads' = threads
    <3>1. \A k \in DOMAIN runs' : RunFits(k)'
      BY <2>2, <2>4 DEF RepliesInv, RunFits
    <3>2. \A k \in DOMAIN threads' : LogFits(threads'[k], counts'.sends)
      BY <2>1, <2>4 DEF RepliesInv
    <3>. QED BY <3>1, <3>2 DEF RepliesInv
  <2>. QED BY <2>1, <2>3, <2>4
<1>5. ASSUME NEW store, NEW order, AfterRun(n, store, order)
      PROVE  /\ DOMAIN runs' \subseteq DOMAIN runs \ {n}
             /\ \A k \in DOMAIN runs' : runs'[k] = runs[k]
  BY <1>5 DEF AfterRun
<1>6. ASSUME RunEnds(n) PROVE RepliesInv'
  <2>1. counts' = counts /\ AfterRun(n, threads', active')
    BY <1>6, Zenon DEF RunEnds
  <2>2. threads' = IF runs[n].acted THEN threads ELSE StoreMessage(threads, t, Message("final", n))
    BY <1>6 DEF RunEnds, t
  <2>3. /\ DOMAIN runs' \subseteq DOMAIN runs /\ n \notin DOMAIN runs'
        /\ \A k \in DOMAIN runs' : runs'[k] = runs[k]
    BY <1>5, <2>1
  <2>4. CASE runs[n].acted
    BY <2>1, <2>2, <2>3, <2>4, RepliesWhenStill
  <2>5. CASE ~runs[n].acted
    <3>1. threads' = StoreMessage(threads, t, Message("final", n))
      BY <2>2, <2>5
    <3>. QED BY <1>3, <2>1, <2>3, <2>5, <3>1
  <2>. QED BY <2>4, <2>5
<1>7. ASSUME RunFails(n) PROVE RepliesInv'
  <2>1. threads' = threads /\ counts' = counts /\ AfterRun(n, threads, active)
    BY <1>7 DEF RunFails
  <2>. QED BY <1>5, <2>1, RepliesWhenStill
<1>. QED BY <1>4, <1>6, <1>7

LEMMA RepliesInit ==
  ASSUME Init
  PROVE  RepliesInv
<1>1. runs = <<>> /\ DOMAIN runs = {} /\ counts.sends = 0
  BY DEF Init
<1> DEFINE m == Message("seed", 0)
<1>2. m.kind = "seed" /\ m.send = 0
  BY DEF Message
<1>3. \A t \in DOMAIN threads : threads[t].log = <<m>>
  <2>1. \A local : Thread(Personas[1], local, m).log = <<m>>
    BY DEF Thread
  <2> HIDE DEF m
  <2>2. threads = <<>> \/ \E local \in BOOLEAN : threads = <<Thread(Personas[1], local, m)>>
    BY DEF Init, m
  <2>. QED BY <2>1, <2>2
<1> HIDE DEF m
<1>4. ASSUME NEW t \in DOMAIN threads PROVE LogFits(threads[t], counts.sends)
  <2>1. DOMAIN threads[t].log = {1} /\ threads[t].log[1] = m
    BY <1>3
  <2>. QED BY <1>1, <1>2, <2>1 DEF LogFits, RepliesFit, Answers
<1>. QED BY <1>1, <1>4 DEF RepliesInv

LEMMA RepliesSteps ==
  ASSUME SessionInv, RepliesInv, SessionInv', [Next]_vars
  PROVE  RepliesInv'
<1>1. CASE KeyPress
  BY <1>1, KeysKeepReplies
<1>2. CASE Poll
  BY <1>2, ScreenKeepsReplies DEF Poll, UiOnly
<1>3. CASE Mail
  BY <1>3, MailKeepsReplies
<1>4. CASE RunStep
  BY <1>4, RunsKeepReplies
<1>5. CASE DatabaseThrows
  <2>1. /\ threads' = threads /\ DOMAIN runs' = {} /\ counts' = [counts EXCEPT !.faults = @ + 1]
    BY <1>5 DEF DatabaseThrows
  <2>2. counts'.sends = counts.sends
    BY <2>1 DEF SessionInv
  <2>. QED BY <2>1, <2>2, RepliesWhenStill
<1>6. CASE UNCHANGED vars
  BY <1>6, ScreenKeepsReplies DEF vars
<1>. QED BY <1>1, <1>2, <1>3, <1>4, <1>5, <1>6 DEF Next

\* Wherever the user has gone while runs are under way, and however often a
\* run calls email.send: what it stores is in the thread of the text it
\* answers, after it; a final response is the only answer to its text; and no
\* thread of mail holds a text of the chat.
THEOREM RepliesStayHomeHolds == Spec => []RepliesStayHome
<1>1. Init => SessionInv /\ RepliesInv
  BY SessionInit, RepliesInit
<1>2. SessionInv /\ RepliesInv /\ [Next]_vars => (SessionInv /\ RepliesInv)'
  BY SessionSteps, RepliesSteps
<1>3. SessionInv /\ RepliesInv => RepliesStayHome
  <2> SUFFICES ASSUME SessionInv, RepliesInv, NEW t \in DOMAIN threads,
                      NEW i \in DOMAIN threads[t].log
               PROVE  LET log == threads[t].log
                          m   == log[i]
                      IN  /\ Answers(m, m.send) => Message("user", m.send) \in Range(SubSeq(log, 1, i))
                          /\ m.kind = "final" => \A j \in DOMAIN log : Answers(log[j], m.send) => j = i
                          /\ m.kind = "user" => threads[t].local
    BY DEF RepliesStayHome
  <2> DEFINE log == threads[t].log
  <2>1. log \in Seq(Messages)
    <3>1. threads[t] \in Threads
      BY InvFacts
    <3>. QED BY <3>1 DEF Threads
  <2>2. LogFits(threads[t], counts.sends)
    BY DEF RepliesInv
  <2>3. Range(SubSeq(log, 1, i)) = {log[j] : j \in 1 .. i}
    <3>1. i \in 0 .. Len(log)
      BY <2>1
    <3> HIDE DEF log
    <3>. QED BY <2>1, <3>1, PrefixRange
  <2>. QED BY <2>2, <2>3 DEF LogFits, RepliesFit
<1>. QED BY <1>1, <1>2, <1>3, PTL DEF Spec
=============================================================================
