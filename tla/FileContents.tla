---------------------------- MODULE FileContents ----------------------------
(***************************************************************************)
(* The data that the store-backed file operations work on, shared by the   *)
(* atomic specification (AtomicFiles) and by the detailed one (FilesStore).*)
(*                                                                         *)
(* A file's text is abstracted to how often each Token occurs in it: the   *)
(* operations look at a text only through "old_string in content",         *)
(* content.count, content.replace and its length in bytes.  Occurrences    *)
(* never overlap and never arise from the text around them.                *)
(***************************************************************************)
EXTENDS Integers, FiniteSets, FiniteSetsExt

CONSTANTS
  Procs,       \* the tool calls that run concurrently (asyncio tasks)
  Paths,       \* the names callers give to files, keys of the trash among them
  Tokens,      \* the strings that old_string and new_string range over
  Bytes,       \* Bytes[t]: the encoded length of token t
  MaxBytes,    \* INSPECT_AGENTS_FS_MAX_BYTES
  MaxClock,    \* bound on time.time(), in whole seconds
  DenyRules,   \* INSPECT_FS_DENY: a glob is the set of the keys it matches
  AllowRules,  \* INSPECT_FS_ALLOW, likewise
  NoFile,      \* get_file's None
  NoCall,      \* a task with no tool call in progress
  NoCount,     \* expected_count = None
  Calls,       \* the calls a task may issue
  Seeds,       \* what earlier agents of the sample may have left in the store
  Stripped(_)  \* a name without its leading slashes: two names may share it

Clock == 0 .. MaxClock

\* The key .trash/<ts>/<path> of the Files mapping, for the files that are
\* trashed.  It is a string like any other, which a caller may name too.
TrashKey(ts, path) == <<ts, Stripped(path)>>
TrashKeys == {TrashKey(ts, c.path) : ts \in Clock, c \in {t \in Calls : t.op = "trash"}}
Keys == Paths \cup TrashKeys

Contents == [Tokens -> Nat]
Size(text) == MapThenSumSet(LAMBDA t : text[t] * Bytes[t], Tokens)

Seeded(seed) == [k \in Keys |-> IF k \in Paths THEN seed[k] ELSE NoFile]
Initials == {Seeded(seed) : seed \in Seeds}

\* The texts within the byte ceiling.
FittingTexts == {text \in Contents : Size(text) <= MaxBytes}

\* How many occurrences one edit replaces: all of them, or the first.
Replaced(text, c) == IF c.all THEN text[c.old] ELSE 1

Replace(text, c) ==
  IF c.old = c.new
  THEN text
  ELSE [text EXCEPT ![c.old] = @ - Replaced(text, c),
                    ![c.new] = @ + Replaced(text, c)]

\* match_path_policy: a deny glob wins; a non-empty allow list denies the rest.
DeniedKeys ==
  {key \in Keys : \/ \E rule \in DenyRules : key \in rule
                  \/ AllowRules # {} /\ \A rule \in AllowRules : key \notin rule}

WriteCalls  == [op : {"write"}, path : Paths, text : Contents]
EditCalls   == [op : {"edit"}, path : Paths, old : Tokens, new : Tokens,
                all : BOOLEAN, expected : Nat \cup {NoCount}, dry : BOOLEAN]
DeleteCalls == [op : {"delete"}, path : Paths]
TrashCalls  == [op : {"trash"}, path : Paths]
MoveCalls   == [op : {"move"}, path : Paths, dst : Paths]
AllCalls    == WriteCalls \cup EditCalls \cup DeleteCalls \cup TrashCalls \cup MoveCalls

Refusals == {"FileNotFound", "StringNotFound", "PolicyDenied",
             "ExpectedCountMismatch", "FileSizeExceeded", "Cancelled"}
Outcomes == Refusals \cup {"none", "ok", "dry_run"}

ASSUME DataAssumption ==
  /\ Bytes \in [Tokens -> Nat \ {0}]
  /\ MaxBytes \in Nat /\ MaxClock \in Nat
  /\ Calls \subseteq AllCalls
  /\ Seeds \subseteq [Paths -> FittingTexts \cup {NoFile}]
  /\ NoFile \notin Contents
  /\ NoCall \notin AllCalls
  /\ NoCount \notin Nat
=============================================================================
