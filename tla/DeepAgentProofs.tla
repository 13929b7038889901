-------------------------- MODULE DeepAgentProofs --------------------------
(***************************************************************************)
(* Theorems about DeepAgent, for every set of calls the models may make,   *)
(* every policy and limit, every setting of the filters, and any depth of  *)
(* sub-agents inside each other.                                           *)
(***************************************************************************)
EXTENDS DeepAgent, DataLemmas

-----------------------------------------------------------------------------
(* What the tools do to the two stores.                                    *)

\* A call is a record of its tool's shape.
LEMMA CallShape ==
  ASSUME NEW c \in Calls
  PROVE  /\ c.fn \in {"write_file", "edit_file", "write_todos", "update_todo_status", "transfer"}
         /\ c.fn = "write_file" => c \in WriteCalls
         /\ c.fn = "edit_file" => c \in EditCalls
         /\ c.fn = "write_todos" => c \in ListCalls
         /\ c.fn = "update_todo_status" => c \in StatusCalls
         /\ c.fn = "transfer" => c.agent \in Agents
  BY DeepAssumption DEF WriteCalls, EditCalls, ListCalls, StatusCalls, Transfers

\* A record of the two stores is one of its two parts changed.
LEMMA StoreParts ==
  ASSUME NEW s \in Stores
  PROVE  /\ s = [files |-> s.files, todos |-> s.todos]
         /\ s.files \in [Paths -> Storable \cup {NoFile}]
         /\ s.todos \in Seq(Todos)
  BY DEF Stores

\* A file is put in the stores.

LEMMA PutStore ==
  ASSUME NEW s \in Stores, NEW path \in Paths, NEW text \in Storable
  PROVE  LET t == [s EXCEPT !.files[path] = text]
         IN /\ t \in Stores
            /\ t.todos = s.todos
            /\ \A other \in Paths \ {path} : t.files[other] = s.files[other]
            /\ t.files[path] = text
            /\ t = s <=> s.files[path] = text
  <1> DEFINE files1 == [s.files EXCEPT ![path] = text]
             t == [s EXCEPT !.files[path] = text]
  <1>1. files1 \in [Paths -> Storable \cup {NoFile}]
    BY StoreParts
  <1>2. t = [files |-> files1, todos |-> s.todos]
    BY StoreParts
  <1>3. /\ \A other \in Paths \ {path} : files1[other] = s.files[other]
        /\ files1[path] = text
        /\ files1 = s.files <=> s.files[path] = text
    BY StoreParts
  <1> HIDE DEF files1, t
  <1>4. t \in Stores
    BY <1>1, <1>2, StoreParts DEF Stores
  <1>5. QED
    BY <1>2, <1>3, <1>4, StoreParts DEF t

LEMMA TextsStorable ==
  Fits \subseteq Storable /\ \A text \in Texts : text \notin Large \ Unencodable => text \in Storable
  BY DEF Fits, Storable

LEMMA WrittenStore ==
  ASSUME NEW s \in Stores, NEW c \in WriteCalls
  PROVE  /\ Written(s, c) \in Stores
         /\ Written(s, c).todos = s.todos
         /\ \A path \in Paths \ {c.path} : Written(s, c).files[path] = s.files[path]
         /\ c.text \in Fits => Written(s, c).files[c.path] = c.text
         /\ c.text \notin Fits => Written(s, c) = s
         /\ c.text \in Fits => (Written(s, c) = s <=> s.files[c.path] = c.text)
  <1>1. CASE c.text \notin Fits
    BY <1>1 DEF Written
  <1>2. CASE c.text \in Fits
    <2>1. c.path \in Paths /\ c.text \in Storable
      BY <1>2, TextsStorable DEF WriteCalls
    <2>2. Written(s, c) = [s EXCEPT !.files[c.path] = c.text]
      BY <1>2 DEF Written
    <2>3. QED
      BY <1>2, <2>1, <2>2, PutStore
  <1>3. QED
    BY <1>1, <1>2

\* An edit that finds its string, and makes a text within the limit, replaces the text.
Lands(s, c) ==
  s.files[c.path] \in DOMAIN c.becomes /\ c.becomes[s.files[c.path]] \in Fits

LEMMA EditedStore ==
  ASSUME NEW s \in Stores, NEW c \in EditCalls
  PROVE  /\ Edited(s, c) \in Stores
         /\ Edited(s, c).todos = s.todos
         /\ \A path \in Paths \ {c.path} : Edited(s, c).files[path] = s.files[path]
         /\ Lands(s, c) => Edited(s, c).files[c.path] = c.becomes[s.files[c.path]]
         /\ Lands(s, c) => (Edited(s, c) = s <=> c.becomes[s.files[c.path]] = s.files[c.path])
         /\ ~Lands(s, c) => Edited(s, c) = s
  <1> DEFINE text == s.files[c.path]
  <1>1. CASE ~Lands(s, c)
    BY <1>1 DEF Edited, Lands
  <1>2. CASE Lands(s, c)
    <2> DEFINE new == c.becomes[text]
               at == c.path
    <2>1. at \in Paths /\ new \in Storable
      BY <1>2, TextsStorable DEF EditCalls, Lands
    <2>2. Edited(s, c) = [s EXCEPT !.files[at] = new]
      BY <1>2 DEF Edited, Lands
    <2> HIDE DEF text, new, at
    <2>3. /\ Edited(s, c) \in Stores
          /\ Edited(s, c).todos = s.todos
          /\ \A path \in Paths \ {at} : Edited(s, c).files[path] = s.files[path]
          /\ Edited(s, c).files[at] = new
          /\ Edited(s, c) = s <=> s.files[at] = new
      BY <2>1, <2>2, PutStore
    <2>4. QED
      BY <1>2, <2>3 DEF text, new, at
  <1>3. QED
    BY <1>1, <1>2, SMTT(30)

LEMMA PutTodos ==
  ASSUME NEW s \in Stores, NEW c \in ListCalls
  PROVE  /\ [s EXCEPT !.todos = c.items] \in Stores
         /\ [s EXCEPT !.todos = c.items].files = s.files
         /\ [s EXCEPT !.todos = c.items].todos = c.items
  <1>1. [s EXCEPT !.todos = c.items] = [files |-> s.files, todos |-> c.items]
    BY StoreParts
  <1>2. c.items \in Seq(Todos)
    BY DEF ListCalls
  <1>3. [files |-> s.files, todos |-> c.items] \in Stores
    BY <1>2, StoreParts DEF Stores
  <1>4. QED
    BY <1>1, <1>3

LEMMA ListedStore ==
  ASSUME NEW s \in Stores, NEW c \in ListCalls
  PROVE  /\ Listed(s, c) \in Stores
         /\ Listed(s, c).files = s.files
         /\ c.spoilt => Listed(s, c) = s
         /\ ~c.spoilt => Listed(s, c).todos = c.items
         /\ Listed(s, c) = s <=> c.spoilt \/ s.todos = c.items
  <1> DEFINE t == [s EXCEPT !.todos = c.items]
  <1>1. t \in Stores /\ t.files = s.files /\ t.todos = c.items
    BY PutTodos
  <1>2. Listed(s, c) = IF c.spoilt THEN s ELSE t
    BY DEF Listed
  <1> HIDE DEF t
  <1>3. t = s <=> s.todos = c.items
    BY <1>1, StoreParts
  <1>4. QED
    BY <1>1, <1>2, <1>3, StoreParts

\* A status that cannot be set, or has been set, is set no further.
LEMMA UpdatedStore ==
  ASSUME NEW s \in Stores, NEW c \in StatusCalls
  PROVE  /\ Updated(s, c) \in Stores
         /\ Updated(s, c).files = s.files
         /\ Updated(s, c) # s => Updated(Updated(s, c), c) = Updated(s, c)
         /\ \A r \in Stores : r.todos = s.todos => Updated(r, c).todos = Updated(s, c).todos
  <1> DEFINE Moves(r) == /\ c.index \in DOMAIN r.todos
                         /\ <<r.todos[c.index].status, c.status>> \in Transitions(c.direct)
             after == [s.todos EXCEPT ![c.index].status = c.status]
  <1>1. ASSUME NEW r \in Stores
        PROVE  /\ ~Moves(r) => Updated(r, c) = r
               /\ Moves(r) => Updated(r, c) =
                    [files |-> r.files, todos |-> [r.todos EXCEPT ![c.index].status = c.status]]
    <2>1. ~Moves(r) => Updated(r, c) = r
      BY Zenon DEF Updated
    <2>2. Moves(r) => Updated(r, c) = [r EXCEPT !.todos[c.index].status = c.status]
      BY Zenon DEF Updated
    <2>3. r = [files |-> r.files, todos |-> r.todos]
      BY StoreParts, Zenon
    <2>4. [r EXCEPT !.todos[c.index].status = c.status]
            = [files |-> r.files, todos |-> [r.todos EXCEPT ![c.index].status = c.status]]
      BY <2>3
    <2>5. QED
      BY <2>1, <2>2, <2>4, Zenon
  <1>2. ASSUME Moves(s)
        PROVE  /\ after \in Seq(Todos)
               /\ c.index \in DOMAIN after /\ after[c.index].status = c.status
    <2>1. s.todos \in Seq(Todos) /\ c.index \in 1 .. Len(s.todos) /\ c.status \in Statuses
      BY <1>2, StoreParts DEF StatusCalls
    <2>2. s.todos[c.index] \in Todos
      BY <2>1, ElementOfSeq
    <2> DEFINE todo == [s.todos[c.index] EXCEPT !.status = c.status]
    <2>3. todo \in Todos /\ todo.status = c.status
      BY <2>1, <2>2 DEF Todos
    <2>4. after = [s.todos EXCEPT ![c.index] = todo]
      BY <2>1
    <2> HIDE DEF todo
    <2>5. QED
      BY <2>1, <2>3, <2>4, ExceptSeq
  <1>3. ~(<<c.status, c.status>> \in Transitions(c.direct))
    BY DEF Transitions, StatusCalls
  <1> HIDE DEF after
  <1>4. QED
    <2>1. CASE ~Moves(s)
      BY <1>1, <2>1, StoreParts
    <2>2. CASE Moves(s)
      <3> DEFINE t == Updated(s, c)
      <3>1. t = [files |-> s.files, todos |-> after]
        BY <1>1, <2>2 DEF after
      <3>2. t \in Stores
        BY <1>2, <2>2, <3>1, StoreParts DEF Stores
      <3>3. ~Moves(t)
        BY <1>2, <1>3, <2>2, <3>1, SMTT(30)
      <3>4. Updated(t, c) = t
        BY <1>1, <3>2, <3>3
      <3>5. ASSUME NEW r \in Stores, r.todos = s.todos
            PROVE  Updated(r, c).todos = after
        BY <1>1, <2>2, <3>5 DEF after
      <3>6. QED
        BY <3>1, <3>2, <3>4, <3>5
    <2>3. QED
      BY <2>1, <2>2

-----------------------------------------------------------------------------
(* What a call does once it has been executed.                             *)

Still(s, c) == Effect(s, c) = s

\* The tool behind a call that the policy permits.
LEMMA EffectTool ==
  ASSUME NEW s, NEW c \in Calls, c.fn # "transfer"
  PROVE  /\ ~Permitted(c) => Effect(s, c) = s
         /\ Permitted(c) /\ c.fn = "write_file" => Effect(s, c) = Written(s, c)
         /\ Permitted(c) /\ c.fn = "edit_file" => Effect(s, c) = Edited(s, c)
         /\ c.fn = "write_todos" => Effect(s, c) = Listed(s, c)
         /\ c.fn = "update_todo_status" => Effect(s, c) = Updated(s, c)
  BY CallShape DEF Effect, Permitted

LEMMA EffectStore ==
  ASSUME NEW s \in Stores, NEW c \in Calls, c.fn # "transfer"
  PROVE  Effect(s, c) \in Stores
  <1>1. CASE ~Permitted(c)
    BY <1>1, EffectTool
  <1>2. CASE Permitted(c) /\ c.fn = "write_file"
    BY <1>2, EffectTool, CallShape, WrittenStore
  <1>3. CASE Permitted(c) /\ c.fn = "edit_file"
    BY <1>3, EffectTool, CallShape, EditedStore
  <1>4. CASE c.fn = "write_todos"
    BY <1>4, EffectTool, CallShape, ListedStore
  <1>5. CASE c.fn = "update_todo_status"
    BY <1>5, EffectTool, CallShape, UpdatedStore
  <1>6. QED
    BY <1>1, <1>2, <1>3, <1>4, <1>5, CallShape

\* The calls on files and the calls on the todos.
OfFiles(c) == c.fn \in {"write_file", "edit_file"}

\* A call keeps what the calls it does not touch work on.
LEMMA OthersKept ==
  ASSUME NEW s \in Stores, NEW c \in Calls, NEW d \in Calls, ~Touches(c, d)
  PROVE  /\ OfFiles(c) => Effect(s, d).files[c.path] = s.files[c.path]
         /\ ~OfFiles(c) => Effect(s, d).todos = s.todos
  <1>1. /\ d.fn # "transfer" /\ c.fn # "transfer"
        /\ ~OfFiles(c) => OfFiles(d)
        /\ OfFiles(c) /\ OfFiles(d) => c.path # d.path
    BY Zenon DEF Touches, OfFiles
  <1>2. OfFiles(c) => c.path \in Paths
    BY CallShape DEF OfFiles, WriteCalls, EditCalls
  <1>3. CASE ~Permitted(d)
    BY <1>1, <1>3, EffectTool
  <1>4. CASE Permitted(d) /\ d.fn = "write_file"
    BY <1>1, <1>2, <1>4, EffectTool, CallShape, WrittenStore, SMTT(30) DEF OfFiles
  <1>5. CASE Permitted(d) /\ d.fn = "edit_file"
    BY <1>1, <1>2, <1>5, EffectTool, CallShape, EditedStore DEF OfFiles
  <1>6. CASE d.fn = "write_todos"
    BY <1>1, <1>6, EffectTool, CallShape, ListedStore DEF OfFiles
  <1>7. CASE d.fn = "update_todo_status"
    BY <1>1, <1>7, EffectTool, CallShape, UpdatedStore DEF OfFiles
  <1>8. QED
    BY <1>1, <1>3, <1>4, <1>5, <1>6, <1>7, CallShape

\* Whether a call would change anything depends on what it works on only.
LEMMA StillWhereSame ==
  ASSUME NEW s \in Stores, NEW r \in Stores, NEW c \in Calls, c.fn # "transfer",
         Still(s, c),
         OfFiles(c) => r.files[c.path] = s.files[c.path],
         ~OfFiles(c) => r.todos = s.todos
  PROVE  Still(r, c)
  <1>1. CASE ~Permitted(c)
    BY <1>1, EffectTool DEF Still
  <1>2. CASE Permitted(c) /\ c.fn = "write_file"
    <2>1. Written(s, c) = s /\ r.files[c.path] = s.files[c.path] /\ c \in WriteCalls
      BY <1>2, EffectTool, CallShape DEF Still, OfFiles
    <2>2. c.text \notin Fits \/ s.files[c.path] = c.text
      BY <2>1, WrittenStore
    <2>3. Written(r, c) = r
      BY <2>1, <2>2, WrittenStore
    <2>4. QED
      BY <1>2, <2>3, EffectTool DEF Still
  <1>3. CASE Permitted(c) /\ c.fn = "edit_file"
    <2>1. Edited(s, c) = s /\ r.files[c.path] = s.files[c.path] /\ c \in EditCalls
      BY <1>3, EffectTool, CallShape DEF Still, OfFiles
    <2>2. Lands(r, c) <=> Lands(s, c)
      BY <2>1 DEF Lands
    <2>3. Edited(r, c) = r
      BY <2>1, <2>2, EditedStore
    <2>4. QED
      BY <1>3, <2>3, EffectTool DEF Still
  <1>4. CASE c.fn = "write_todos"
    <2>1. Listed(s, c) = s /\ r.todos = s.todos /\ c \in ListCalls
      BY <1>4, EffectTool, CallShape DEF Still, OfFiles
    <2>2. c.spoilt \/ s.todos = c.items
      BY <2>1, ListedStore
    <2>3. Listed(r, c) = r
      BY <2>1, <2>2, ListedStore
    <2>4. QED
      BY <1>4, <2>3, EffectTool DEF Still
  <1>5. CASE c.fn = "update_todo_status"
    <2>1. Updated(s, c) = s /\ r.todos = s.todos /\ c \in StatusCalls
      BY <1>5, EffectTool, CallShape DEF Still, OfFiles
    <2>2. Updated(r, c) \in Stores /\ Updated(r, c).files = r.files /\ Updated(r, c).todos = r.todos
      BY <2>1, UpdatedStore
    <2>3. Updated(r, c) = r
      BY <2>2, StoreParts
    <2>4. QED
      BY <1>5, <2>3, EffectTool DEF Still
  <1>6. QED
    BY <1>1, <1>2, <1>3, <1>4, <1>5, CallShape

\* A call that is executed a second time changes nothing, unless it is an edit
\* that finds its old string in what it made.
LEMMA StillOnceDone ==
  ASSUME NEW s \in Stores, NEW c \in Calls, c.fn # "transfer", Once(c)
  PROVE  Still(Effect(s, c), c)
  <1>1. CASE ~Permitted(c)
    BY <1>1, EffectTool DEF Still
  <1>2. CASE Permitted(c) /\ c.fn = "write_file"
    <2>1. c \in WriteCalls /\ Effect(s, c) = Written(s, c) /\ Written(s, c) \in Stores
      BY <1>2, EffectTool, CallShape, WrittenStore
    <2>2. Written(Written(s, c), c) = Written(s, c)
      BY <2>1, WrittenStore
    <2>3. QED
      BY <1>2, <2>1, <2>2, EffectTool DEF Still
  <1>3. CASE Permitted(c) /\ c.fn = "edit_file"
    <2> DEFINE t == Edited(s, c)
    <2>1. c \in EditCalls /\ Effect(s, c) = t /\ t \in Stores
      BY <1>3, EffectTool, CallShape, EditedStore
    <2>2. CASE Lands(s, c)
      <3>1. t.files[c.path] = c.becomes[s.files[c.path]] /\ s.files[c.path] \in DOMAIN c.becomes
        BY <2>1, <2>2, EditedStore DEF Lands
      <3>2. ~Lands(t, c)
        BY <1>3, <3>1 DEF Once, Lands
      <3>3. Edited(t, c) = t
        BY <2>1, <3>2, EditedStore
      <3>4. QED
        BY <1>3, <2>1, <3>3, EffectTool DEF Still
    <2>3. CASE ~Lands(s, c)
      BY <1>3, <2>1, <2>3, EditedStore, EffectTool DEF Still
    <2>4. QED
      BY <2>2, <2>3
  <1>4. CASE c.fn = "write_todos"
    <2>1. c \in ListCalls /\ Effect(s, c) = Listed(s, c) /\ Listed(s, c) \in Stores
      BY <1>4, EffectTool, CallShape, ListedStore
    <2>2. Listed(Listed(s, c), c) = Listed(s, c)
      BY <2>1, ListedStore
    <2>3. QED
      BY <1>4, <2>1, <2>2, EffectTool DEF Still
  <1>5. CASE c.fn = "update_todo_status"
    <2>1. c \in StatusCalls /\ Effect(s, c) = Updated(s, c)
      BY <1>5, EffectTool, CallShape
    <2>2. Updated(Updated(s, c), c) = Updated(s, c)
      <3>1. CASE Updated(s, c) = s
        BY <3>1
      <3>2. CASE Updated(s, c) # s
        BY <2>1, <3>2, UpdatedStore
      <3>3. QED
        BY <3>1, <3>2
    <2>3. QED
      BY <1>5, <2>1, <2>2, EffectTool DEF Still
  <1>6. QED
    BY <1>1, <1>2, <1>3, <1>4, <1>5, CallShape

\* Calls that do not touch each other may be executed in any order, and again.
LEMMA StillApart ==
  ASSUME NEW s \in Stores, NEW c \in Calls, NEW d \in Calls, ~Touches(c, d), Still(s, c)
  PROVE  Still(Effect(s, d), c)
  <1>1. c.fn # "transfer" /\ d.fn # "transfer"
    BY DEF Touches
  <1>2. Effect(s, d) \in Stores
    BY <1>1, EffectStore
  <1>3. /\ OfFiles(c) => Effect(s, d).files[c.path] = s.files[c.path]
        /\ ~OfFiles(c) => Effect(s, d).todos = s.todos
    BY OthersKept
  <1>4. QED
    BY <1>1, <1>2, <1>3, StillWhereSame

-----------------------------------------------------------------------------
(* What the fallback writes.                                               *)

\* Where the fallback writes.
LEMMA HomePath ==
  ASSUME NEW c \in WriteCalls
  PROVE  c.path \in Paths /\ Home[c.path] \in Paths /\ c.text \in Texts
  BY DeepAssumption DEF WriteCalls

\* The fallback writes what the calls write_file and write_todos ask for.
LEMMA FallenBackStore ==
  ASSUME NEW s \in Stores, NEW r \in Stores, NEW c \in Calls, Pending(r, c)
  PROVE  /\ FallenBack(s, c) \in Stores
         /\ c.fn \in {"write_file", "write_todos"}
         /\ c.fn = "write_file" =>
              /\ FallenBack(s, c).todos = s.todos
              /\ \A path \in Paths \ {Home[c.path]} : FallenBack(s, c).files[path] = s.files[path]
              /\ c.text \in Fits => FallenBack(s, c).files[Home[c.path]] = c.text
              /\ c.text \in Large \ Unencodable => FallenBack(s, c) = s
         /\ c.fn = "write_todos" =>
              /\ c.items = <<>> => FallenBack(s, c) = s
              /\ FallenBack(s, c).files = s.files
              /\ c.items # <<>> => FallenBack(s, c).todos = c.items
  <1>1. c.fn \in {"write_file", "write_todos"}
    BY DEF Pending
  <1>2. CASE c.fn = "write_file"
    <2>1. c \in WriteCalls /\ Home[c.path] \in Paths /\ c.text \in Texts
      BY <1>2, CallShape, HomePath
    <2>2. CASE c.text \in Large \ Unencodable
      <3>1. FallenBack(s, c) = s
        BY <1>2, <2>2 DEF FallenBack
      <3>2. QED
        BY <1>2, <2>2, <3>1 DEF Fits
    <2>3. CASE c.text \notin Large \ Unencodable
      <3>1. FallenBack(s, c) = [s EXCEPT !.files[Home[c.path]] = c.text]
        BY <1>2, <2>3 DEF FallenBack
      <3>2. c.text \in Storable
        BY <2>1, <2>3, TextsStorable
      <3>3. QED
        BY <1>2, <2>1, <2>3, <3>1, <3>2, PutStore
    <2>4. QED
      BY <2>2, <2>3
  <1>3. CASE c.fn = "write_todos"
    <2>1. FallenBack(s, c) = IF c.items = <<>> THEN s ELSE [s EXCEPT !.todos = c.items]
      BY <1>3 DEF FallenBack
    <2>2. c \in ListCalls
      BY <1>3, CallShape
    <2>3. QED
      BY <1>3, <2>1, <2>2, PutTodos
  <1>4. QED
    BY <1>1, <1>2, <1>3

\* It changes nothing for a plain call that is permitted and would change nothing.
LEMMA FallenBackStill ==
  ASSUME NEW s \in Stores, NEW c \in Calls, Permitted(c), Plain(c), Still(s, c), Pending(s, c)
  PROVE  FallenBack(s, c) = s
  <1>1. CASE c.fn = "write_file"
    <2>1. c \in WriteCalls /\ Written(s, c) = s /\ Home[c.path] = c.path /\ s.files[c.path] # c.text
      BY <1>1, CallShape, EffectTool DEF Still, Plain, Pending
    <2>2. c.text \notin Fits /\ c.text \in Texts /\ c.text \notin Unencodable
      BY <1>1, <2>1, WrittenStore, HomePath DEF Plain
    <2>3. c.text \in Large \ Unencodable
      BY <2>2 DEF Fits
    <2>4. QED
      BY <1>1, <2>3, FallenBackStore
  <1>2. CASE c.fn = "write_todos"
    <2>1. c \in ListCalls /\ Listed(s, c) = s
      BY <1>2, CallShape, EffectTool DEF Still
    <2>2. CASE c.items = <<>>
      BY <1>2, <2>2, FallenBackStore
    <2>3. CASE c.items # <<>>
      <3>1. ~c.spoilt
        BY <1>2, <2>3 DEF Plain
      <3>2. QED
        <4>1. s.todos = c.items
          BY <2>1, <3>1, ListedStore
        <4>2. /\ FallenBack(s, c) \in Stores /\ FallenBack(s, c).files = s.files
              /\ FallenBack(s, c).todos = c.items
          BY <1>2, <2>3, FallenBackStore
        <4>3. QED
          BY <4>1, <4>2, StoreParts
    <2>4. QED
      BY <2>2, <2>3
  <1>3. QED
    BY <1>1, <1>2 DEF Pending

Step(s, now, c) == IF Pending(s, c) THEN FallenBack(now, c) ELSE now

\* The calls are applied one after the other.
Applies(p, s, calls) ==
  /\ p \in [0 .. Len(calls) -> Stores]
  /\ p[0] = s
  /\ \A i \in 1 .. Len(calls) : p[i] = Step(s, p[i - 1], calls[i])
  /\ Applied(s, calls) = p[Len(calls)]

LEMMA AppliedPath ==
  ASSUME NEW s \in Stores, NEW calls \in Seq(Calls)
  PROVE  \E p : Applies(p, s, calls)
  <1> DEFINE n == Len(calls)
             A == Stores
             G == [y \in (1 .. n) \X A |-> Step(s, y[2], calls[y[1]])]
             Body(h) == [T \in SUBSET (1 .. n) |->
                           IF T = {} THEN s ELSE Step(s, h[T \ {Max(T)}], calls[Max(T)])]
             it == CHOOSE h : h = Body(h)
  <1>1. n \in Nat /\ DOMAIN calls = 1 .. n
    OBVIOUS
  <1>2. ASSUME NEW i \in 1 .. n
        PROVE  calls[i] \in Calls
    BY <1>1, ElementOfSeq
  <1>3. ASSUME NEW i \in 1 .. n, NEW a \in A
        PROVE  Step(s, a, calls[i]) \in A
    BY <1>2, FallenBackStore DEF Step
  <1>4. G \in [(1 .. n) \X A -> A]
    <2> HIDE DEF A
    <2>1. QED
      BY <1>3
  <1> HIDE DEF A
  <1>5. PICK h : FoldsTo(h, n, A, s, G)
    <2>1. s \in A
      BY DEF A
    <2> HIDE DEF G
    <2>2. QED
      BY <1>1, <1>4, <2>1, FoldExists
  <1>6. h = Body(h)
    <2>1. ASSUME NEW T \in SUBSET (1 .. n), T # {}
          PROVE  h[T] = Step(s, h[T \ {Max(T)}], calls[Max(T)])
      <3>1. Max(T) \in 1 .. n
        BY <1>1, <2>1, MaxOf
      <3>2. h[T \ {Max(T)}] \in A /\ h[T] = G[<<Max(T), h[T \ {Max(T)}]>>]
        BY <1>5, <2>1 DEF FoldsTo
      <3>3. QED
        BY <3>1, <3>2
    <2>2. h \in [SUBSET (1 .. n) -> A] /\ h[{}] = s
      BY <1>5 DEF FoldsTo
    <2>3. QED
      BY <2>1, <2>2
  <1>7. it = Body(it)
    BY <1>6
  <1>8. Applied(s, calls) = it[1 .. n]
    <2>1. Applied(s, calls) = it[DOMAIN calls]
      BY <1>1 DEF Applied, FoldLeft, MapThenFoldSet, Step
    <2>2. QED
      BY <1>1, <2>1
  <1> HIDE DEF it
  <1> DEFINE p == [i \in 0 .. n |-> it[1 .. i]]
  <1>9. p[0] = s
    BY <1>1, <1>7
  <1>10. ASSUME NEW i \in 1 .. n
         PROVE  p[i] = Step(s, p[i - 1], calls[i])
    <2>1. 1 .. i \in SUBSET (1 .. n) /\ i \in Nat \ {0} /\ i \in 0 .. n /\ i - 1 \in 0 .. n
      OBVIOUS
    <2>2. Max(1 .. i) = i /\ (1 .. i) \ {i} = 1 .. (i - 1) /\ 1 .. i # {}
      BY <2>1, MaxOfPrefix
    <2>3. QED
      BY <1>7, <2>1, <2>2
  <1>11. p = [i \in 0 .. n |-> p[i]] /\ n \in 0 .. n /\ Applied(s, calls) = p[n]
    BY <1>1, <1>8
  <1> HIDE DEF p
  <1>12. p \in [0 .. n -> A]
    <2>1. ASSUME NEW i \in 1 .. n, p[i - 1] \in A
          PROVE  p[i] \in A
      BY <1>3, <1>10, <2>1
    <2>2. s \in A
      BY DEF A
    <2>3. QED
      BY <1>1, <1>9, <1>11, <2>1, <2>2, PrefixesIn
  <1>13. Applies(p, s, calls)
    BY <1>9, <1>10, <1>11, <1>12, Zenon DEF A, Applies
  <1>14. QED
    BY <1>13

\* Calls that would change nothing are not applied by the fallback either.
LEMMA AppliedStill ==
  ASSUME NEW s \in Stores, NEW calls \in Seq(Calls),
         \A i \in 1 .. Len(calls) :
           Permitted(calls[i]) /\ Plain(calls[i]) /\ Still(s, calls[i])
  PROVE  Applied(s, calls) = s
  <1> DEFINE n == Len(calls)
  <1>1. PICK p : Applies(p, s, calls)
    BY AppliedPath
  <1>2. /\ n \in Nat /\ p \in [0 .. n -> Stores] /\ p[0] = s /\ Applied(s, calls) = p[n]
        /\ \A i \in 1 .. n : p[i] = Step(s, p[i - 1], calls[i])
    BY <1>1 DEF Applies
  <1> DEFINE T == {i \in 0 .. n : p[i] = s}
  <1>3. ASSUME NEW i \in 1 .. n, i - 1 \in T
        PROVE  i \in T
    <2>1. calls[i] \in Calls /\ p[i - 1] = s /\ i \in 0 .. n
      BY <1>3, ElementOfSeq
    <2>2. Step(s, s, calls[i]) = s
      BY <2>1, FallenBackStill DEF Step
    <2>3. QED
      BY <1>2, <2>1, <2>2
  <1>4. T \in SUBSET (0 .. n) /\ 0 \in T
    BY <1>2
  <1> HIDE DEF T
  <1>5. T = 0 .. n
    BY <1>2, <1>3, <1>4, IndexInduction
  <1>6. QED
    BY <1>2, <1>5 DEF T

\* The fallback for one call keeps what the calls it does not touch work on.
LEMMA StepApart ==
  ASSUME NEW s \in Stores, NEW now \in Stores, NEW c \in Calls, NEW d \in Calls, ~Touches(c, d)
  PROVE  /\ OfFiles(c) => Step(s, now, d).files[c.path] = now.files[c.path]
         /\ ~OfFiles(c) => Step(s, now, d).todos = now.todos
  <1>1. /\ ~OfFiles(c) => OfFiles(d)
        /\ OfFiles(c) /\ OfFiles(d) => Home[c.path] # Home[d.path]
        /\ OfFiles(c) => c.path \in Paths
    BY CallShape DEF Touches, OfFiles, WriteCalls, EditCalls
  <1>2. CASE ~Pending(s, d)
    BY <1>2 DEF Step
  <1>3. CASE Pending(s, d) /\ d.fn = "write_file"
    <2>1. Step(s, now, d) = FallenBack(now, d) /\ d \in WriteCalls /\ OfFiles(d)
      BY <1>3, CallShape DEF Step, OfFiles
    <2>2. OfFiles(c) => c.path # Home[d.path]
      <3>1. Home[Home[d.path]] = Home[d.path]
        BY <2>1, HomePath, DeepAssumption
      <3>2. QED
        BY <1>1, <2>1, <3>1
    <2>3. QED
      BY <1>1, <1>3, <2>1, <2>2, FallenBackStore
  <1>4. CASE Pending(s, d) /\ d.fn = "write_todos"
    <2>1. Step(s, now, d) = FallenBack(now, d)
      BY <1>4 DEF Step
    <2>2. OfFiles(c)
      BY <1>1, <1>4 DEF OfFiles
    <2>3. QED
      BY <1>4, <2>1, <2>2, FallenBackStore
  <1>5. QED
    BY <1>2, <1>3, <1>4, FallenBackStore

\* A write that no other call touches is there when the fallback is done.
LEMMA AppliedLands ==
  ASSUME NEW s \in Stores, NEW calls \in Seq(Calls), NEW k \in 1 .. Len(calls),
         \A j \in (1 .. Len(calls)) \ {k} : ~Touches(calls[k], calls[j])
  PROVE  /\ calls[k].fn = "write_file" /\ calls[k].text \in Fits
              /\ Home[calls[k].path] = calls[k].path
              => Applied(s, calls).files[calls[k].path] = calls[k].text
         /\ calls[k].fn = "write_todos" /\ calls[k].items # <<>>
              => Applied(s, calls).todos = calls[k].items
  <1> DEFINE n == Len(calls)
             c == calls[k]
  <1>1. PICK p : Applies(p, s, calls)
    BY AppliedPath
  <1>2. /\ n \in Nat /\ p \in [0 .. n -> Stores] /\ p[0] = s /\ Applied(s, calls) = p[n]
        /\ \A i \in 1 .. n : p[i] = Step(s, p[i - 1], calls[i])
    BY <1>1 DEF Applies
  <1>3. c \in Calls /\ \A i \in 1 .. n : calls[i] \in Calls
    BY ElementOfSeq
  <1>4. ASSUME NEW i \in 1 .. n
        PROVE  i \in 0 .. n /\ i - 1 \in 0 .. n /\ p[i] \in Stores /\ p[i - 1] \in Stores
    <2>1. i \in 0 .. n /\ i - 1 \in 0 .. n
      BY <1>2
    <2>2. QED
      BY <1>2, <2>1
  <1> HIDE DEF n, c
  <1>5. CASE c.fn = "write_file" /\ c.text \in Fits /\ Home[c.path] = c.path
    <2> DEFINE T == {i \in 0 .. n : p[i].files[c.path] =
                                      IF i < k THEN s.files[c.path] ELSE c.text}
    <2>1. T \in SUBSET (0 .. n) /\ 0 \in T
      BY <1>2 DEF n
    <2>2. ASSUME NEW i \in 1 .. n, i - 1 \in T
          PROVE  i \in T
      <3>1. CASE i = k
        <4>1. p[i - 1].files[c.path] = s.files[c.path] /\ calls[i] = c
          BY <2>2, <3>1 DEF n, c
        <4>2. Step(s, p[i - 1], c).files[c.path] = c.text
          <5>1. CASE Pending(s, c)
            <6>1. FallenBack(p[i - 1], c).files[c.path] = c.text
              BY <1>3, <1>4, <1>5, <5>1, FallenBackStore
            <6>2. QED
              BY <5>1, <6>1 DEF Step
          <5>2. CASE ~Pending(s, c)
            BY <1>5, <4>1, <5>2 DEF Step, Pending
          <5>3. QED
            BY <5>1, <5>2
        <4>3. QED
          BY <1>2, <1>4, <3>1, <4>1, <4>2 DEF n
      <3>2. CASE i # k
        <4>1. ~Touches(c, calls[i]) /\ OfFiles(c)
          BY <1>5, <3>2 DEF n, c, OfFiles
        <4>2. p[i].files[c.path] = p[i - 1].files[c.path]
          <5>1. p[i - 1] \in Stores /\ c \in Calls /\ calls[i] \in Calls
            BY <1>3, <1>4
          <5>2. p[i] = Step(s, p[i - 1], calls[i])
            BY <1>2
          <5>3. Step(s, p[i - 1], calls[i]).files[c.path] = p[i - 1].files[c.path]
            BY <4>1, <5>1, StepApart
          <5>4. QED
            BY <5>2, <5>3
        <4>3. i < k <=> i - 1 < k
          BY <3>2 DEF n
        <4>4. QED
          BY <1>4, <2>2, <4>2, <4>3
      <3>3. QED
        BY <3>1, <3>2
    <2> HIDE DEF T
    <2>3. T = 0 .. n
      BY <1>2, <2>1, <2>2, IndexInduction
    <2>4. p[n].files[c.path] = c.text
      BY <1>2, <2>3 DEF T, n
    <2>5. QED
      BY <1>2, <1>5, <2>4 DEF c
  <1>6. CASE c.fn = "write_todos" /\ c.items # <<>>
    <2> DEFINE T == {i \in 0 .. n : p[i].todos = IF i < k THEN s.todos ELSE c.items}
    <2>1. T \in SUBSET (0 .. n) /\ 0 \in T
      BY <1>2 DEF n
    <2>2. ASSUME NEW i \in 1 .. n, i - 1 \in T
          PROVE  i \in T
      <3>1. CASE i = k
        <4>1. p[i - 1].todos = s.todos /\ calls[i] = c
          BY <2>2, <3>1 DEF n, c
        <4>2. Step(s, p[i - 1], c).todos = c.items
          <5>1. CASE Pending(s, c)
            <6>1. FallenBack(p[i - 1], c).todos = c.items
              BY <1>3, <1>4, <1>6, <5>1, FallenBackStore
            <6>2. QED
              BY <5>1, <6>1 DEF Step
          <5>2. CASE ~Pending(s, c)
            BY <1>6, <4>1, <5>2 DEF Step, Pending
          <5>3. QED
            BY <5>1, <5>2
        <4>3. QED
          BY <1>2, <1>4, <3>1, <4>1, <4>2 DEF n
      <3>2. CASE i # k
        <4>1. ~Touches(c, calls[i]) /\ ~OfFiles(c)
          BY <1>6, <3>2 DEF n, c, OfFiles
        <4>2. p[i].todos = p[i - 1].todos
          <5>1. p[i - 1] \in Stores /\ c \in Calls /\ calls[i] \in Calls
            BY <1>3, <1>4
          <5>2. p[i] = Step(s, p[i - 1], calls[i])
            BY <1>2
          <5>3. Step(s, p[i - 1], calls[i]).todos = p[i - 1].todos
            BY <4>1, <5>1, StepApart
          <5>4. QED
            BY <5>2, <5>3
        <4>3. i < k <=> i - 1 < k
          BY <3>2 DEF n
        <4>4. QED
          BY <1>4, <2>2, <4>2, <4>3
      <3>3. QED
        BY <3>1, <3>2
    <2> HIDE DEF T
    <2>3. T = 0 .. n
      BY <1>2, <2>1, <2>2, IndexInduction
    <2>4. p[n].todos = c.items
      BY <1>2, <2>3 DEF T, n
    <2>5. QED
      BY <1>2, <1>6, <2>4 DEF c
  <1>7. QED
    BY <1>5, <1>6 DEF c

LEMMA AppliedStore ==
  ASSUME NEW s \in Stores, NEW calls \in Seq(Calls)
  PROVE  Applied(s, calls) \in Stores
  <1>1. PICK p : Applies(p, s, calls)
    BY AppliedPath
  <1>2. QED
    BY <1>1 DEF Applies

-----------------------------------------------------------------------------
(* The sub-agents inside each other, and the modes they were filtered by.  *)

Views == {Crossing(mode, m, n) : mode \in Modes, m \in Nat, n \in Nat}
Frames == [agent : Agents, mode : Modes, seen : Views, first : BOOLEAN,
           handed : BOOLEAN, work : Nat]

\* Every sub-agent but the innermost has handed off, and what the innermost was
\* filtered by is what the store holds until it hands off itself.
Nesting ==
  /\ active \in Modes \cup {NoMode}
  /\ stack \in Seq(Frames)
  /\ \A i \in 1 .. Len(stack) - 1 : stack[i].handed
  /\ stack # <<>> /\ ~stack[Len(stack)].handed /\ ExplicitMode[stack[Len(stack)].agent] = NoMode
       => active = stack[Len(stack)].mode
  /\ CascadeFollowsParent

LEMMA ModesFound ==
  ASSUME NEW agent \in Agents, NEW mode \in Modes \cup {NoMode}
  PROVE  /\ DefaultMode(agent, mode) \in Modes
         /\ HandoffMode(agent, mode) \in Modes
         /\ RecordedMode(agent, mode) \in Modes \cup {NoMode}
  BY QuarantineAssumption DEF DefaultMode, Inherited, HandoffMode, RecordedMode

\* The record of a sub-agent is changed in one part.
LEMMA FrameParts ==
  ASSUME NEW frames \in Seq(Frames), frames # <<>>,
         NEW last \in Frames,
         last.agent = frames[Len(frames)].agent, last.mode = frames[Len(frames)].mode,
         last.first = frames[Len(frames)].first
  PROVE  LET changed == [frames EXCEPT ![Len(frames)] = last]
         IN /\ changed \in Seq(Frames) /\ Len(changed) = Len(frames)
            /\ \A i \in 1 .. Len(frames) :
                 /\ changed[i].agent = frames[i].agent /\ changed[i].mode = frames[i].mode
                 /\ changed[i].first = frames[i].first
                 /\ i # Len(frames) => changed[i] = frames[i]
            /\ changed[Len(frames)] = last
  <1>1. Len(frames) \in 1 .. Len(frames) /\ Len(frames) \in Nat
    BY EmptySeq
  <1>2. QED
    BY <1>1, ExceptSeq

\* A handoff nests one sub-agent more.
LEMMA HandoffNests ==
  ASSUME Nesting, Store \in Stores, NEW agent \in Agents, Handoff(agent)
  PROVE  Nesting'
  <1> DEFINE n == Len(stack)
             nested == stack # <<>>
             present == Cardinality({p \in Paths : Home[p] = p /\ files[p] # NoFile})
             mode == HandoffMode(agent, active)
             entry == [agent |-> agent, mode |-> mode,
                       seen |-> Crossing(mode, Len(todos), present),
                       first |-> nested /\ ~Last(stack).handed,
                       handed |-> FALSE, work |-> 0]
             base == IF nested THEN [stack EXCEPT ![n].handed = TRUE] ELSE stack
  <1>1. n \in Nat /\ stack \in Seq(Frames) /\ (nested => n \in 1 .. n)
    BY EmptySeq DEF Nesting
  <1>2. entry \in Frames
    <2>1. mode \in Modes
      BY ModesFound DEF Nesting
    <2>2. Len(todos) \in Nat
      BY DEF Store, Stores
    <2>3. present \in Nat
      BY DeepAssumption, FS_Subset, FS_CardinalityType
    <2>4. Crossing(mode, Len(todos), present) \in Views
      <3> HIDE DEF mode, present
      <3>1. QED
        BY <2>1, <2>2, <2>3 DEF Views
    <2> HIDE DEF mode, present, nested
    <2>5. (nested /\ ~Last(stack).handed) \in BOOLEAN
      OBVIOUS
    <2>6. QED
      BY <2>1, <2>4, <2>5 DEF Frames
  <1>3. /\ base \in Seq(Frames) /\ Len(base) = n
        /\ \A i \in 1 .. n : /\ base[i].agent = stack[i].agent /\ base[i].mode = stack[i].mode
                             /\ base[i].first = stack[i].first /\ base[i].handed
    <2>1. CASE ~nested
      BY <1>1, <2>1
    <2>2. CASE nested
      <3> DEFINE last == [stack[n] EXCEPT !.handed = TRUE]
      <3>1. stack[n] \in Frames
        BY <1>1, <2>2, ElementOfSeq
      <3>2. last \in Frames /\ last.agent = stack[n].agent /\ last.mode = stack[n].mode
            /\ last.first = stack[n].first /\ last.handed
        BY <3>1 DEF Frames
      <3>3. base = [stack EXCEPT ![n] = last]
        BY <1>1, <2>2
      <3> HIDE DEF last, base
      <3>4. /\ base \in Seq(Frames) /\ Len(base) = n /\ base[n] = last
            /\ \A i \in 1 .. n : /\ base[i].agent = stack[i].agent /\ base[i].mode = stack[i].mode
                                 /\ base[i].first = stack[i].first
                                 /\ i # n => base[i] = stack[i]
        BY <1>1, <2>2, <3>2, <3>3, FrameParts
      <3>5. \A i \in 1 .. n : i # n => stack[i].handed
        BY <1>1 DEF Nesting
      <3>6. QED
        BY <3>2, <3>4, <3>5
    <2>3. QED
      BY <2>1, <2>2
  <1>4. stack' = Append(base, entry) /\ active' = RecordedMode(agent, active)
    BY DEF Handoff
  <1>5. nested /\ entry.first => ~stack[n].handed
    BY DEF Last
  <1>6. entry.agent = agent /\ entry.mode = mode /\ entry.handed = FALSE
    OBVIOUS
  <1> HIDE DEF base, entry, n
  <1>7. /\ stack' \in Seq(Frames) /\ Len(stack') = n + 1 /\ stack'[n + 1] = entry
        /\ \A i \in 1 .. n : stack'[i] = base[i]
    BY <1>1, <1>2, <1>3, <1>4, AppendProperties
  <1>8. active' \in Modes \cup {NoMode}
    BY <1>4, ModesFound DEF Nesting
  <1>9. \A i \in 1 .. Len(stack') - 1 : stack'[i].handed
    BY <1>1, <1>3, <1>7
  <1>10. ExplicitMode[agent] = NoMode => active' = mode
    BY <1>4 DEF RecordedMode, HandoffMode
  <1>11. CascadeFollowsParent'
    <2> SUFFICES ASSUME Inherit, NEW i \in 2 .. n + 1,
                        stack'[i].first, ExplicitMode[stack'[i - 1].agent] = NoMode,
                        ExplicitMode[stack'[i].agent] = NoMode,
                        AgentMode[stack'[i].agent] = NoMode
                 PROVE  stack'[i].mode = stack'[i - 1].mode
      BY <1>1, <1>7 DEF CascadeFollowsParent
    <2>1. CASE i \in 2 .. n
      <3>1. /\ stack[i].first /\ ExplicitMode[stack[i - 1].agent] = NoMode
            /\ ExplicitMode[stack[i].agent] = NoMode /\ AgentMode[stack[i].agent] = NoMode
        BY <1>3, <1>7, <2>1
      <3>2. stack[i].mode = stack[i - 1].mode
        BY <2>1, <3>1 DEF Nesting, CascadeFollowsParent, n
      <3>3. QED
        BY <1>3, <1>7, <2>1, <3>2
    <2>2. CASE i = n + 1
      <3>1. n \in 1 .. n /\ nested /\ i - 1 = n
        BY <1>1, <2>2, EmptySeq DEF n
      <3>2. ~stack[n].handed /\ ExplicitMode[stack[n].agent] = NoMode
        BY <1>3, <1>5, <1>7, <2>2, <3>1
      <3>3. active = stack[n].mode /\ active \in Modes
        <4>1. stack[n] \in Frames
          BY <1>1, <3>1, ElementOfSeq DEF n
        <4>2. QED
          BY <3>1, <3>2, <4>1 DEF Nesting, n, Frames
      <3>4. mode = active
        BY <1>6, <1>7, <2>2, <3>3, QuarantineAssumption DEF HandoffMode, DefaultMode, Inherited
      <3>5. QED
        BY <1>3, <1>6, <1>7, <2>2, <3>1, <3>3, <3>4
    <2>3. QED
      BY <1>1, <2>1, <2>2
  <1>12. QED
    BY <1>1, <1>6, <1>7, <1>8, <1>9, <1>10, <1>11 DEF Nesting

\* A sub-agent at work keeps its mode.
LEMMA WorkNests ==
  ASSUME Nesting, stack # <<>>, UNCHANGED active,
         stack' = [stack EXCEPT ![Len(stack)].work = @ + 1]
  PROVE  Nesting'
  <1> DEFINE n == Len(stack)
             last == [stack[n] EXCEPT !.work = @ + 1]
  <1>1. n \in Nat /\ stack \in Seq(Frames) /\ n \in 1 .. n
    BY EmptySeq DEF Nesting
  <1>2. stack[n] \in Frames
    BY <1>1, ElementOfSeq
  <1>3. last \in Frames /\ last.agent = stack[n].agent /\ last.mode = stack[n].mode
        /\ last.first = stack[n].first /\ last.handed = stack[n].handed
    BY <1>2 DEF Frames
  <1>4. stack' = [stack EXCEPT ![n] = last]
    BY <1>1
  <1> HIDE DEF last
  <1>5. /\ stack' \in Seq(Frames) /\ Len(stack') = n /\ stack'[n] = last
        /\ \A i \in 1 .. n : /\ stack'[i].agent = stack[i].agent /\ stack'[i].mode = stack[i].mode
                             /\ stack'[i].first = stack[i].first
                             /\ i # n => stack'[i] = stack[i]
    BY <1>1, <1>3, <1>4, FrameParts, SMTT(30)
  <1>6. \A i \in 1 .. n : stack'[i].handed = stack[i].handed
    BY <1>3, <1>5
  <1> HIDE DEF n
  <1>7. CascadeFollowsParent'
    <2>1. \A i \in 2 .. n : i \in 1 .. n /\ i - 1 \in 1 .. n
      BY <1>1
    <2>2. QED
      BY <1>5, <2>1 DEF Nesting, CascadeFollowsParent, n
  <1>8. \A i \in 1 .. Len(stack') - 1 : stack'[i].handed
    BY <1>1, <1>5, <1>6 DEF Nesting, n
  <1>9. ~stack'[n].handed /\ ExplicitMode[stack'[n].agent] = NoMode => active' = stack'[n].mode
    BY <1>1, <1>5, <1>6 DEF Nesting, n
  <1>10. QED
    BY <1>1, <1>5, <1>7, <1>8, <1>9 DEF Nesting

\* The parent of a sub-agent that returns has handed off already.
LEMMA ReturnNests ==
  ASSUME Nesting, SubReturn
  PROVE  Nesting'
  <1> DEFINE n == Len(stack)
  <1>1. n \in Nat \ {0} /\ stack \in Seq(Frames)
    BY EmptySeq DEF Nesting, SubReturn
  <1>2. stack' = SubSeq(stack, 1, n - 1) /\ active' = active
    BY DEF SubReturn, Front
  <1>3. /\ stack' \in Seq(Frames) /\ Len(stack') = n - 1
        /\ \A i \in 1 .. n - 1 : stack'[i] = stack[i]
    <2> DEFINE m == n - 1
               front == SubSeq(stack, 1, m)
    <2>1. m \in Nat /\ \A i \in 1 .. m : stack[i] \in Frames
      BY <1>1, ElementOfSeq
    <2>2. stack' = front
      BY <1>2
    <2> HIDE DEF m, n
    <2>3. /\ front \in Seq(Frames) /\ Len(front) = IF 1 <= m THEN m - 1 + 1 ELSE 0
          /\ \A i \in 1 .. m - 1 + 1 : front[i] = stack[1 + i - 1]
      BY <2>1, SubSeqProperties
    <2> HIDE DEF front
    <2>4. stack' \in Seq(Frames) /\ Len(stack') = m /\ \A i \in 1 .. m : stack'[i] = stack[i]
      BY <2>1, <2>2, <2>3
    <2>5. QED
      BY <2>4 DEF m
  <1>4. \A i \in 1 .. n - 1 : stack[i].handed
    BY DEF Nesting
  <1>5. CascadeFollowsParent'
    <2>1. \A i \in 2 .. n - 1 : i \in 2 .. n /\ i \in 1 .. n - 1 /\ i - 1 \in 1 .. n - 1
      BY <1>1
    <2> HIDE DEF n
    <2>2. QED
      BY <1>3, <2>1 DEF Nesting, CascadeFollowsParent, n
  <1>6. stack' # <<>> => stack'[Len(stack')].handed
    <2>1. stack' # <<>> => n - 1 \in 1 .. n - 1
      BY <1>1, <1>3, EmptySeq
    <2>2. QED
      BY <1>3, <1>4, <2>1
  <1> HIDE DEF n
  <1>7. \A i \in 1 .. Len(stack') - 1 : stack'[i].handed
    BY <1>1, <1>3, <1>4
  <1>8. QED
    BY <1>2, <1>3, <1>5, <1>6, <1>7 DEF Nesting

\* Without a sub-agent there is nothing to inherit.
LEMMA NothingNested ==
  ASSUME NEW mode \in Modes \cup {NoMode}, active' = mode, stack' = <<>>
  PROVE  Nesting'
  <1>1. Len(stack') = 0 /\ stack' \in Seq(Frames)
    BY EmptySeq
  <1>2. QED
    BY <1>1 DEF Nesting, CascadeFollowsParent

-----------------------------------------------------------------------------
(* Types, and the modes of nested handoffs.                                *)

Turns ==
  /\ batch \in Messages
  /\ turns \in 0 .. MaxTurns
  /\ pos \in 1 .. Len(batch) + 1
  /\ submit \in {"no", "beside", "alone"}
  /\ ran \subseteq DOMAIN batch
  /\ phase \in {"answer", "execute", "replay", "fallback", "done"}
  /\ raised \in {"nothing", "denial", "other"}
  /\ verdicts \in [DOMAIN batch -> SUBSET BOOLEAN]

TypedInv == Store \in Stores /\ before \in Stores /\ Nesting /\ Turns

LEMMA TypedInvTypes ==
  ASSUME TypedInv
  PROVE  TypeOK /\ CascadeFollowsParent
  <1>1. ASSUME NEW i \in DOMAIN stack
        PROVE  stack[i].agent \in Agents /\ stack[i].mode \in Modes
    <2>1. stack[i] \in Frames
      BY ElementOfSeq DEF TypedInv, Nesting
    <2>2. QED
      BY <2>1 DEF Frames
  <1>2. QED
    BY <1>1 DEF TypedInv, TypeOK, Nesting, Turns

LEMMA MessageShape ==
  ASSUME NEW calls \in Messages
  PROVE  calls \in Seq(Calls) /\ Len(calls) \in Nat /\ DOMAIN calls = 1 .. Len(calls)
  <1>1. PICK n \in 0 .. MaxCalls : calls \in [1 .. n -> Calls]
    BY DEF Messages
  <1>2. n \in Nat
    BY DeepAssumption
  <1>3. QED
    BY <1>1, <1>2

LEMMA StoreOf ==
  /\ \A s \in Stores : Become(s) => Store' = s
  /\ UNCHANGED stores => Store' = Store
  BY DEF Become, Store, Stores, stores

LEMMA NestingKept ==
  ASSUME Nesting, UNCHANGED <<active, stack>>
  PROVE  Nesting'
  BY DEF Nesting, CascadeFollowsParent

\* A call keeps the types of what it works on, and a handoff nests.
LEMMA CallKeeps ==
  ASSUME Store \in Stores, Nesting, NEW c \in Calls, NEW approved \in BOOLEAN,
         Call(c, approved)
  PROVE  Store' \in Stores /\ Nesting'
  <1>1. CASE ~approved
    BY <1>1, StoreOf, NestingKept DEF Call
  <1>2. CASE approved /\ c.fn = "transfer"
    <2>1. Handoff(c.agent) /\ c.agent \in Agents
      BY <1>2, CallShape DEF Call
    <2>2. UNCHANGED stores
      BY <2>1 DEF Handoff
    <2>3. QED
      BY <2>1, <2>2, StoreOf, HandoffNests
  <1>3. CASE approved /\ c.fn # "transfer"
    <2>1. Become(Effect(Store, c)) /\ UNCHANGED <<active, stack>>
      BY <1>3 DEF Call
    <2>2. Effect(Store, c) \in Stores
      BY <1>3, EffectStore
    <2>3. QED
      BY <2>1, <2>2, StoreOf, NestingKept
  <1>4. QED
    BY <1>1, <1>2, <1>3

LEMMA TypedInit == Init => TypedInv
  <1> SUFFICES ASSUME Init PROVE TypedInv
    OBVIOUS
  <1>1. Store \in Stores /\ before \in Stores
    <2>1. <<>> \in Seq(Todos)
      BY EmptySeq
    <2>2. QED
      BY <2>1 DEF Init, Store, Stores
  <1>2. Nesting
    BY EmptySeq DEF Init, Nesting, CascadeFollowsParent
  <1>3. Turns
    <2>1. batch \in Messages /\ Len(batch) = 0
      <3>1. 0 \in 0 .. MaxCalls /\ <<>> \in [1 .. 0 -> Calls]
        BY DeepAssumption
      <3>2. QED
        BY <3>1 DEF Init, Messages
    <2>2. QED
      BY <2>1, DeepAssumption DEF Init, Turns
  <1>4. QED
    BY <1>1, <1>2, <1>3 DEF TypedInv

LEMMA TypedNext == TypedInv /\ [Next]_vars => TypedInv'
  <1> SUFFICES ASSUME TypedInv, [Next]_vars PROVE TypedInv'
    OBVIOUS
  <1>1. /\ Store \in Stores /\ before \in Stores /\ Nesting /\ Turns
        /\ Len(batch) \in Nat /\ DOMAIN batch = 1 .. Len(batch) /\ batch \in Seq(Calls)
    BY MessageShape DEF TypedInv, Turns
  <1>2. ASSUME NEW calls \in Messages, NEW sub \in BOOLEAN, Answer(calls, sub)
        PROVE  TypedInv'
    <2>1. Store' = Store /\ before' = before
      BY <1>2, StoreOf DEF Answer
    <2>2. Nesting'
      BY <1>1, <1>2, NestingKept DEF Answer
    <2>3. Turns'
      <3>1. /\ submit' \in {"no", "beside", "alone"} /\ phase' = "execute"
            /\ raised' = raised /\ raised' \in {"nothing", "denial", "other"}
        BY <1>1, <1>2 DEF Answer, Turns
      <3>2. CASE calls = <<>>
        BY <1>1, <1>2, <3>1, <3>2 DEF Answer, Turns
      <3>3. CASE calls # <<>>
        <4>1. /\ batch' = calls /\ turns' = turns + 1 /\ turns < MaxTurns /\ pos' = 1
              /\ ran' = {} /\ verdicts' = [i \in DOMAIN calls |-> {}]
          BY <1>2, <3>3 DEF Answer
        <4>2. turns' \in 0 .. MaxTurns
          BY <1>1, <4>1, DeepAssumption DEF Turns
        <4>3. Len(calls) \in Nat /\ 1 \in 1 .. Len(calls) + 1
          BY MessageShape
        <4>4. QED
          BY <3>1, <4>1, <4>2, <4>3 DEF Turns
      <3>4. QED
        BY <3>2, <3>3
    <2>4. QED
      BY <1>1, <2>1, <2>2, <2>3 DEF TypedInv
  <1>3. ASSUME NEW approved \in BOOLEAN, ExecuteCall(approved) PROVE TypedInv'
    <2>1. batch[pos] \in Calls /\ Call(batch[pos], approved) /\ pos \in 1 .. Len(batch)
      BY <1>1, <1>3 DEF ExecuteCall, Turns
    <2>2. Store' \in Stores /\ Nesting'
      BY <1>1, <2>1, CallKeeps
    <2>3. Turns'
      BY <1>1, <1>3, <2>1 DEF ExecuteCall, Asked, Turns, turn
    <2>4. QED
      BY <1>1, <1>3, <2>2, <2>3 DEF TypedInv, ExecuteCall
  <1>4. ASSUME NEW approved \in BOOLEAN, ReplayCall(approved) PROVE TypedInv'
    <2>1. batch[pos] \in Calls /\ Call(batch[pos], approved) /\ pos \in 1 .. Len(batch)
      BY <1>1, <1>4 DEF ReplayCall, Turns
    <2>2. Store' \in Stores /\ Nesting'
      BY <1>1, <2>1, CallKeeps
    <2>3. Turns'
      BY <1>1, <1>4, <2>1 DEF ReplayCall, Asked, Turns, turn
    <2>4. QED
      BY <1>1, <1>4, <2>2, <2>3 DEF TypedInv, ReplayCall
  <1>5. ASSUME NEW c \in SubCalls, SubCall(c) PROVE TypedInv'
    <2>1. c \in Calls
      BY DeepAssumption
    <2>2. Store' \in Stores /\ Nesting'
      <3>1. CASE c.fn = "transfer"
        <4>1. Handoff(c.agent) /\ c.agent \in Agents
          BY <1>5, <2>1, <3>1, CallShape DEF SubCall
        <4>2. UNCHANGED stores
          BY <4>1 DEF Handoff
        <4>3. QED
          BY <1>1, <4>1, <4>2, StoreOf, HandoffNests
      <3>2. CASE c.fn # "transfer"
        <4>1. /\ Become(Effect(Store, c)) /\ UNCHANGED active /\ stack # <<>>
              /\ stack' = [stack EXCEPT ![Len(stack)].work = @ + 1]
          BY <1>5, <3>2 DEF SubCall
        <4>2. Effect(Store, c) \in Stores
          BY <1>1, <2>1, <3>2, EffectStore
        <4>3. QED
          BY <1>1, <4>1, <4>2, StoreOf, WorkNests
      <3>3. QED
        BY <3>1, <3>2
    <2>3. Turns' /\ before' = before
      BY <1>1, <1>5 DEF SubCall, Turns, turn
    <2>4. QED
      BY <1>1, <2>2, <2>3 DEF TypedInv
  <1>6. CASE SubReturn
    <2>1. Store' = Store /\ before' = before /\ Turns'
      BY <1>1, <1>6, StoreOf DEF SubReturn, Turns, turn
    <2>2. QED
      BY <1>1, <1>6, <2>1, ReturnNests DEF TypedInv
  <1>7. CASE NextTurn \/ Replayed
    <2>1. Store' = Store /\ before' = before /\ Turns' /\ UNCHANGED <<active, stack>>
      BY <1>1, <1>7, StoreOf DEF NextTurn, Replayed, Turns, turn
    <2>2. QED
      BY <1>1, <2>1, NestingKept DEF TypedInv
  <1>8. ASSUME NEW taken \in BOOLEAN, Return(taken) PROVE TypedInv'
    <2>1. Store' = Store /\ before' = Store /\ Turns' /\ UNCHANGED <<active, stack>>
      BY <1>1, <1>8, StoreOf DEF Return, Turns, turn
    <2>2. QED
      BY <1>1, <2>1, NestingKept DEF TypedInv
  <1>9. ASSUME NEW denial \in BOOLEAN, ReplayRaises(denial) PROVE TypedInv'
    <2>1. /\ Store' = Store /\ before' = before /\ Turns'
          /\ active' = active /\ stack' = <<>> /\ active \in Modes \cup {NoMode}
      BY <1>1, <1>9, StoreOf DEF ReplayRaises, Turns, turn, Nesting
    <2>2. Nesting'
      BY <2>1, NothingNested
    <2>3. QED
      BY <1>1, <2>1, <2>2 DEF TypedInv
  <1>10. CASE Fallback
    <2>1. Become(Applied(Store, batch)) /\ Applied(Store, batch) \in Stores
      BY <1>1, <1>10, AppliedStore DEF Fallback
    <2>2. Store' \in Stores
      BY <2>1, StoreOf
    <2>3. before' = before /\ Turns' /\ UNCHANGED <<active, stack>>
      BY <1>1, <1>10 DEF Fallback, Turns, turn
    <2>4. QED
      BY <1>1, <2>2, <2>3, NestingKept DEF TypedInv
  <1>11. CASE UNCHANGED vars
    BY <1>1, <1>11, StoreOf, NestingKept DEF vars, TypedInv, Turns, stores
  <1>12. QED
    BY <1>2, <1>3, <1>4, <1>5, <1>6, <1>7, <1>8, <1>9, <1>10, <1>11 DEF Next

LEMMA TypedAlways == Spec => []TypedInv
  BY TypedInit, TypedNext, PTL DEF Spec

\* However the agents call their tools and hand off to each other, and however the
\* replay of the last calls ends, no text above the limit is in the stores, although the
\* fallback writes around the tools: it measures what it writes as they do, and what it
\* writes without, in its except branch, is a text that has no size.
THEOREM TypeCorrect == Spec => []TypeOK
  <1>1. TypedInv => TypeOK
    BY TypedInvTypes
  <1>2. QED
    BY <1>1, TypedAlways, PTL

\* The first handoff of a sub-agent passes its filter on, at any depth and whatever was
\* handed off before it, because the mode in the store is that of the innermost sub-agent
\* until it hands off itself.
THEOREM CascadesFollow == Spec => []CascadeFollowsParent
  <1>1. TypedInv => CascadeFollowsParent
    BY TypedInvTypes
  <1>2. QED
    BY <1>1, TypedAlways, PTL

-----------------------------------------------------------------------------
(* The end of a run: what was to be written is there, and what was done    *)
(* already is not done again.                                              *)

\* No sub-agent is at work between two answers and after the replay.
Rests == phase \in {"answer", "fallback", "done"} => stack = <<>>

\* The calls of the last message are those ReplayHarmless speaks of.
Clean ==
  \A i \in DOMAIN batch :
    /\ batch[i].fn # "transfer" /\ Alone(i)
    /\ Once(batch[i]) /\ Permitted(batch[i]) /\ Plain(batch[i])

\* What the library has executed would change nothing any more, and so the stores
\* are through the replay what they were before it.
Harmless ==
  Clean =>
    /\ stack = <<>>
    /\ phase \in {"answer", "execute"} \/ ran = DOMAIN batch
         => \A i \in ran : Still(Store, batch[i])
    /\ phase \in {"replay", "fallback", "done"} /\ ran = DOMAIN batch => Store = before

EndInv == Rests /\ SubmittedWritesLand /\ Harmless

LEMMA EndInit == Init => EndInv
  BY DEF Init, EndInv, Rests, SubmittedWritesLand, Harmless

\* A call of a message without handoffs is a call of a tool, or is rejected.
LEMMA ToolCall ==
  ASSUME TypedInv, NEW c \in Calls, c.fn # "transfer", NEW approved \in BOOLEAN,
         Call(c, approved)
  PROVE  /\ UNCHANGED <<active, stack>>
         /\ Store' = IF approved THEN Effect(Store, c) ELSE Store
  <1>1. CASE ~approved
    BY <1>1, StoreOf DEF Call
  <1>2. CASE approved
    <2>1. Become(Effect(Store, c)) /\ UNCHANGED <<active, stack>>
      BY <1>2 DEF Call
    <2>2. Effect(Store, c) \in Stores
      BY EffectStore DEF TypedInv
    <2>3. QED
      BY <1>2, <2>1, <2>2, StoreOf
  <1>3. QED
    BY <1>1, <1>2

\* The fallback leaves a write that no other call touches.
LEMMA FallbackLands ==
  ASSUME TypedInv, Fallback
  PROVE  SubmittedWritesLand'
  <1>1. Store \in Stores /\ batch \in Seq(Calls) /\ DOMAIN batch = 1 .. Len(batch)
    BY MessageShape DEF TypedInv, Turns
  <1>2. files' = Applied(Store, batch).files /\ todos' = Applied(Store, batch).todos
    BY DEF Fallback, Become
  <1>3. batch' = batch /\ verdicts' = verdicts /\ submit' = submit /\ raised' = raised
    BY DEF Fallback, turn
  <1>4. ASSUME NEW i \in DOMAIN batch, Alone(i)
        PROVE  /\ batch[i].fn = "write_file" /\ batch[i].text \in Fits
                    /\ Home[batch[i].path] = batch[i].path
                    => files'[batch[i].path] = batch[i].text
               /\ batch[i].fn = "write_todos" /\ batch[i].items # <<>>
                    => todos' = batch[i].items
    <2>1. i \in 1 .. Len(batch) /\ \A j \in (1 .. Len(batch)) \ {i} : ~Touches(batch[i], batch[j])
      BY <1>1, <1>4 DEF Alone
    <2>2. QED
      BY <1>1, <1>2, <2>1, AppliedLands
  <1>5. QED
    BY <1>3, <1>4 DEF SubmittedWritesLand, Alone

LEMMA EndNext == TypedInv /\ EndInv /\ [Next]_vars => EndInv'
  <1> SUFFICES ASSUME TypedInv, EndInv, [Next]_vars PROVE EndInv'
    OBVIOUS
  <1>1. /\ Store \in Stores /\ batch \in Seq(Calls) /\ DOMAIN batch = 1 .. Len(batch)
        /\ ran \subseteq DOMAIN batch /\ Len(batch) \in Nat /\ pos \in 1 .. Len(batch) + 1
    BY MessageShape DEF TypedInv, Turns
  <1>2. Rests /\ SubmittedWritesLand /\ Harmless
    BY DEF EndInv
  <1>3. batch' = batch => Clean' = Clean
    BY DEF Clean, Alone
  <1>4. ASSUME NEW calls \in Messages, NEW sub \in BOOLEAN, Answer(calls, sub)
        PROVE  EndInv'
    <2>1. phase = "answer" /\ phase' = "execute" /\ stack = <<>> /\ stack' = <<>> /\ Store' = Store
      BY <1>2, <1>4, StoreOf DEF Answer, Rests
    <2>2. CASE calls = <<>>
      BY <1>2, <1>3, <1>4, <2>1, <2>2 DEF Answer, EndInv, Rests, SubmittedWritesLand, Harmless
    <2>3. CASE calls # <<>>
      <3>1. ran' = {}
        BY <1>4, <2>3 DEF Answer
      <3>2. QED
        BY <2>1, <3>1 DEF EndInv, Rests, SubmittedWritesLand, Harmless
    <2>4. QED
      BY <2>2, <2>3
  <1>5. ASSUME NEW approved \in BOOLEAN, ExecuteCall(approved) PROVE EndInv'
    <2>1. /\ batch[pos] \in Calls /\ Call(batch[pos], approved) /\ pos \in DOMAIN batch
          /\ phase = "execute" /\ phase' = "execute" /\ batch' = batch /\ submit' = submit
          /\ ran' = IF approved THEN ran \cup {pos} ELSE ran
      BY <1>1, <1>5 DEF ExecuteCall, turn
    <2>2. ASSUME Clean
          PROVE  stack' = <<>> /\ \A i \in ran' : Still(Store', batch[i])
      <3> DEFINE d == batch[pos]
      <3>1. d.fn # "transfer" /\ Once(d) /\ stack = <<>> /\ \A i \in ran : Still(Store, batch[i])
        BY <1>2, <2>1, <2>2 DEF Clean, Harmless
      <3>2. stack' = <<>> /\ Store' = IF approved THEN Effect(Store, d) ELSE Store
        BY <2>1, <3>1, ToolCall
      <3>3. Still(Effect(Store, d), d)
        BY <1>1, <2>1, <3>1, StillOnceDone
      <3>4. ASSUME NEW i \in ran, i # pos
            PROVE  Still(Effect(Store, d), batch[i])
        <4>1. ~Touches(batch[i], d) /\ batch[i] \in Calls
          BY <1>1, <2>1, <2>2, <3>4, ElementOfSeq DEF Clean, Alone
        <4>2. QED
          BY <1>1, <2>1, <3>1, <4>1, StillApart
      <3> HIDE DEF d
      <3>5. CASE approved
        <4>1. ASSUME NEW i \in ran'
              PROVE  Still(Store', batch[i])
          <5>1. CASE i = pos
            BY <3>2, <3>3, <3>5, <5>1 DEF d
          <5>2. CASE i # pos
            BY <2>1, <3>2, <3>4, <3>5, <5>2
          <5>3. QED
            BY <5>1, <5>2
        <4>2. QED
          BY <3>2, <4>1
      <3>6. CASE ~approved
        BY <2>1, <3>1, <3>2, <3>6
      <3>7. QED
        BY <3>5, <3>6
    <2>3. QED
      BY <1>3, <2>1, <2>2 DEF EndInv, Rests, SubmittedWritesLand, Harmless
  <1>6. ASSUME NEW approved \in BOOLEAN, ReplayCall(approved) PROVE EndInv'
    <2>1. /\ batch[pos] \in Calls /\ Call(batch[pos], approved) /\ pos \in DOMAIN batch
          /\ phase = "replay" /\ phase' = "replay" /\ batch' = batch /\ ran' = ran
          /\ before' = before
      BY <1>1, <1>6 DEF ReplayCall, turn
    <2>2. ASSUME Clean
          PROVE  stack' = <<>> /\ (ran = DOMAIN batch => Store' = Store)
      <3>1. batch[pos].fn # "transfer" /\ stack = <<>>
        BY <1>2, <2>1, <2>2 DEF Clean, Harmless
      <3>2. /\ stack' = stack
            /\ Store' = IF approved THEN Effect(Store, batch[pos]) ELSE Store
        BY <2>1, <3>1, ToolCall
      <3>3. ran = DOMAIN batch => Still(Store, batch[pos])
        BY <1>2, <2>1, <2>2 DEF Harmless
      <3>4. QED
        BY <3>1, <3>2, <3>3 DEF Still
    <2>3. Harmless'
      <3> SUFFICES ASSUME Clean
                   PROVE  /\ stack' = <<>>
                          /\ ran = DOMAIN batch => \A i \in ran : Still(Store', batch[i])
                          /\ ran = DOMAIN batch => Store' = before
        BY <1>3, <2>1 DEF Harmless
      <3>1. QED
        BY <1>2, <2>1, <2>2 DEF Harmless
    <2>4. QED
      BY <2>1, <2>3 DEF EndInv, Rests, SubmittedWritesLand
  <1>7. ASSUME NEW c \in SubCalls, SubCall(c) PROVE EndInv'
    <2>1. stack # <<>> /\ phase' = phase /\ batch' = batch
      BY <1>7 DEF SubCall, turn
    <2>2. ~Clean /\ phase \notin {"answer", "fallback", "done"}
      BY <1>2, <2>1 DEF Harmless, Rests
    <2>3. Rests' /\ SubmittedWritesLand'
      BY <2>1, <2>2 DEF Rests, SubmittedWritesLand
    <2>4. Harmless'
      BY <1>3, <2>1, <2>2 DEF Harmless
    <2>5. QED
      BY <2>3, <2>4 DEF EndInv
  <1>8. CASE SubReturn
    <2>1. stack # <<>> /\ phase' = phase /\ batch' = batch
      BY <1>8 DEF SubReturn, turn
    <2>2. ~Clean /\ phase \notin {"answer", "fallback", "done"}
      BY <1>2, <2>1 DEF Harmless, Rests
    <2>3. Rests' /\ SubmittedWritesLand'
      BY <2>1, <2>2 DEF Rests, SubmittedWritesLand
    <2>4. Harmless'
      BY <1>3, <2>1, <2>2 DEF Harmless
    <2>5. QED
      BY <2>3, <2>4 DEF EndInv
  <1>9. CASE NextTurn
    <2>1. /\ phase = "execute" /\ phase' = "answer" /\ stack' = <<>> /\ stack = <<>>
          /\ Store' = Store /\ batch' = batch /\ ran' = ran
      BY <1>9, StoreOf DEF NextTurn, turn
    <2>2. QED
      BY <1>2, <1>3, <2>1 DEF EndInv, Rests, SubmittedWritesLand, Harmless
  <1>10. CASE Replayed
    <2>1. /\ phase = "replay" /\ phase' = "fallback" /\ stack' = <<>> /\ stack = <<>>
          /\ Store' = Store /\ batch' = batch /\ ran' = ran /\ before' = before
      BY <1>10, StoreOf DEF Replayed, turn
    <2>2. QED
      BY <1>2, <1>3, <2>1 DEF EndInv, Rests, SubmittedWritesLand, Harmless
  <1>11. ASSUME NEW taken \in BOOLEAN, Return(taken) PROVE EndInv'
    <2>1. /\ phase = "execute" /\ phase' \in {"replay", "done"} /\ stack' = <<>> /\ stack = <<>>
          /\ Store' = Store /\ batch' = batch /\ ran' = ran /\ before' = Store
          /\ submit' = submit /\ (submit = "beside" /\ phase' = "done" => batch = <<>>)
      BY <1>11, StoreOf DEF Return, turn
    <2>2. SubmittedWritesLand'
      BY <1>1, <2>1, EmptySeq DEF SubmittedWritesLand
    <2>3. Harmless'
      BY <1>2, <1>3, <2>1 DEF Harmless
    <2>4. QED
      BY <2>1, <2>2, <2>3 DEF EndInv, Rests
  <1>12. ASSUME NEW denial \in BOOLEAN, ReplayRaises(denial) PROVE EndInv'
    <2>1. /\ phase = "replay" /\ phase' = (IF denial THEN "done" ELSE "fallback")
          /\ raised' = (IF denial THEN "denial" ELSE "other") /\ stack' = <<>>
          /\ Store' = Store /\ batch' = batch /\ ran' = ran /\ before' = before
      BY <1>12, StoreOf DEF ReplayRaises, turn
    <2>2. QED
      BY <1>2, <1>3, <2>1 DEF EndInv, Rests, SubmittedWritesLand, Harmless
  <1>13. CASE Fallback
    <2>1. /\ phase = "fallback" /\ phase' = "done" /\ stack = <<>> /\ stack' = <<>>
          /\ batch' = batch /\ ran' = ran /\ before' = before
          /\ Become(Applied(Store, batch))
      BY <1>2, <1>13 DEF Fallback, turn, Rests
    <2>2. Applied(Store, batch) \in Stores
      BY <1>1, AppliedStore
    <2>3. ASSUME Clean, ran = DOMAIN batch
          PROVE  Store' = Store
      <3>1. \A i \in 1 .. Len(batch) :
              Permitted(batch[i]) /\ Plain(batch[i]) /\ Still(Store, batch[i])
        BY <1>1, <1>2, <2>3 DEF Clean, Harmless
      <3>2. Applied(Store, batch) = Store
        BY <1>1, <3>1, AppliedStill
      <3>3. QED
        BY <2>1, <2>2, <3>2, StoreOf
    <2>4. Harmless'
      <3> SUFFICES ASSUME Clean
                   PROVE  /\ stack' = <<>>
                          /\ ran = DOMAIN batch => \A i \in ran : Still(Store', batch[i])
                          /\ ran = DOMAIN batch => Store' = before
        BY <1>3, <2>1 DEF Harmless
      <3>1. QED
        BY <1>2, <2>1, <2>3 DEF Harmless
    <2>5. QED
      BY <1>13, <2>1, <2>4, FallbackLands DEF EndInv, Rests
  <1>14. CASE UNCHANGED vars
    <2>1. Store' = Store
      BY <1>14, StoreOf DEF vars, stores
    <2>2. Rests' /\ Harmless'
      BY <1>2, <1>3, <1>14, <2>1 DEF vars, Rests, Harmless
    <2>3. SubmittedWritesLand'
      BY <1>2, <1>14 DEF vars, SubmittedWritesLand, Alone
    <2>4. QED
      BY <2>2, <2>3 DEF EndInv
  <1>15. QED
    BY <1>4, <1>5, <1>6, <1>7, <1>8, <1>9, <1>10, <1>11, <1>12, <1>13, <1>14 DEF Next

\* Whatever the replay does before it stops, and whatever the stores hold then: a write
\* beside a submit that the tool would make in the default store, that neither approver
\* nor policy refuses and no other call of its message touches is there in the end.
THEOREM WritesLand == Spec => []SubmittedWritesLand
  <1>1. EndInv => SubmittedWritesLand
    BY DEF EndInv
  <1>2. QED
    BY <1>1, EndInit, EndNext, TypedAlways, PTL DEF Spec

\* Calls that were executed, and that do nothing the second time, are left as they were
\* by the replay and the fallback, however the replay is interrupted and approved; unless
\* the fallback asks less of them than their tool (Plain) or the policy denies them.
THEOREM ReplayDoesNoHarm == Spec => []ReplayHarmless
  <1>1. EndInv => ReplayHarmless
    BY DEF EndInv, Harmless, Clean, ReplayHarmless
  <1>2. QED
    BY <1>1, EndInit, EndNext, TypedAlways, PTL DEF Spec
=============================================================================
