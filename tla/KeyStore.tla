------------------------------ MODULE KeyStore ------------------------------
(***************************************************************************)
(* The keys of one provider on disk: the server that loads them when it    *)
(* starts (internal/cmd/start.go) and saves them after every call of the   *)
(* admin API (PersistKeys of internal/server/server.go), and the command   *)
(* line that edits a file of its own (internal/cmd/key.go).                *)
(*                                                                         *)
(* PersistKeys copies the keys under the pool's lock, reads each key's     *)
(* disabled flag under a lock of its own, and writes the file under none,  *)
(* so each of these is a step.  os.WriteFile truncates, then writes.       *)
(* Names are left out; the disk is never full.                             *)
(***************************************************************************)
EXTENDS Integers, SequencesExt

CONSTANTS KeyIds,           \* the API keys
          MaxKeys,          \* bound: longest list of keys
          Listings,         \* bound: what a command may leave in its file
          Admins,           \* concurrent calls of the admin API
          Sealing           \* the commands run with KEYS_ENCRYPTION_KEY set

ASSUME StoreAssumption == MaxKeys \in Nat \ {0} /\ Sealing \in BOOLEAN

VARIABLES running,                              \* the server process is up
          counter, keys, cooldowns, disabled,   \* its pool; the last one while
                                                \* it is down
          keysFile,         \* cfg.KeysFile, which only the server writes
          encFile,          \* <config dir>/keys/<provider>.enc, which only the
                            \* commands write
          pc, op,           \* of each admin call: its next step, what it does,
          copied, entries,  \* the keys it copied and the entries it has made
          command,          \* the command that runs, and what it will save
          solo,             \* history: the latest call had the API to itself
          saved,            \* history: who saved the pool since it was loaded:
                            \* "nobody", the latest a call "alone", or "raced"
          cut               \* history: the last stop cut off an admin call

poolVars  == <<counter, keys, cooldowns, disabled>>
history   == <<solo, saved, cut>>
adminVars == <<pc, op, copied, entries>>
vars == <<running, poolVars, keysFile, encFile, adminVars, command, history>>

\* A sealed key is ciphertext: of use to nobody before it is decrypted.
Seal(k) == [sealed |-> k]

Pool == INSTANCE KeyPool WITH
  KeyIds <- KeyIds \cup {Seal(k) : k \in KeyIds}, CounterPeriod <- 1

Absent    == [form |-> "absent", entries |-> <<>>]
Torn      == [form |-> "torn",   entries |-> <<>>]
Store(es) == [form |-> "store",  entries |-> es]

KeysOf(es) == [i \in DOMAIN es |-> es[i].key]

NoOp      == [do |-> "none"]
NoCommand == [step |-> "idle", store |-> <<>>]

Init ==
  /\ running = FALSE
  /\ Pool!NewKeyPool(<<>>)
  /\ keysFile = Absent /\ encFile = Absent
  /\ pc = [a \in Admins |-> "idle"] /\ op = [a \in Admins |-> NoOp]
  /\ copied = [a \in Admins |-> <<>>] /\ entries = [a \in Admins |-> <<>>]
  /\ command = NoCommand
  /\ solo = TRUE /\ saved = "nobody" /\ cut = FALSE

\* The second half of os.WriteFile.  Over what another writer put there since the
\* file was truncated, the shorter text leaves the end of the longer one.
Written(file, es) ==
  {Store(es)} \cup (IF file.form = "store" /\ file.entries # es THEN {Torn} ELSE {})

------------------------------------------------------------------------------
(* The server process.                                                     *)

RenewPool(ks) ==
  /\ counter' = 0
  /\ keys' = ks
  /\ cooldowns' = [i \in DOMAIN ks |-> 0]
  /\ disabled' = [i \in DOMAIN ks |-> FALSE]

\* loadKeysForProvider: a file that is absent or cannot be parsed is passed over,
\* one without keys is not.  The TOML configuration holds no keys.  The server
\* has no encryption key yet and takes the entries as they are.
\* Mutant: the commands' file comes first.
LoadedCommandsFirst ==
  IF encFile.form = "store" THEN encFile.entries
  ELSE IF keysFile.form = "store" THEN keysFile.entries ELSE <<>>

Loaded ==
  IF keysFile.form = "store" THEN keysFile.entries
  ELSE IF encFile.form = "store" THEN encFile.entries ELSE <<>>

\* Validate refuses a provider without keys.
Start ==
  /\ ~running /\ Loaded # <<>>
  /\ running' = TRUE
  /\ RenewPool(KeysOf(Loaded))
  /\ saved' = "nobody" /\ cut' = FALSE
  /\ UNCHANGED <<keysFile, encFile, adminVars, command, solo>>

\* A crash, or a stop whose grace period ran out.
Stop ==
  /\ running
  /\ running' = FALSE
  /\ cut' = (\E a \in Admins : pc[a] # "idle")
  /\ pc' = [a \in Admins |-> "idle"] /\ op' = [a \in Admins |-> NoOp]
  /\ copied' = [a \in Admins |-> <<>>] /\ entries' = [a \in Admins |-> <<>>]
  /\ UNCHANGED <<poolVars, keysFile, encFile, command, solo, saved>>

\* executeProxy disables a key that was refused, and saves nothing.
Retire(i) ==
  /\ running
  /\ Pool!Disable(i)
  /\ UNCHANGED <<running, keysFile, encFile, adminVars, command, history>>

------------------------------------------------------------------------------
(* A call of the admin API, step by step.                                  *)

Quiet == \A a \in Admins : pc[a] = "idle"

Goto(a, label) == pc' = [pc EXCEPT ![a] = label]

Return(a) ==
  /\ Goto(a, "idle")
  /\ op' = [op EXCEPT ![a] = NoOp]
  /\ copied' = [copied EXCEPT ![a] = <<>>]
  /\ entries' = [entries EXCEPT ![a] = <<>>]

Indexed == {"remove", "delete", "disable"}

Ops ==
  {[do |-> "add", key |-> k] : k \in IF Len(keys) < MaxKeys THEN KeyIds ELSE {}}
    \cup {[do |-> d, index |-> i] : d \in Indexed, i \in DOMAIN keys}

\* The handler has checked its index against the keys of this moment.
Call(a) ==
  /\ running /\ pc[a] = "idle"
  /\ solo' = Quiet
  /\ \E o \in Ops : op' = [op EXCEPT ![a] = o]
  /\ Goto(a, "change")
  /\ UNCHANGED <<running, poolVars, keysFile, encFile, copied, entries, command,
                 saved, cut>>

\* reloadHandler: a new pool of the TOML configuration's keys, of which there are
\* none.  It saves nothing.  keysHandler ("add", "remove") took its pool before it
\* checked its index, so that what it has yet to change is the pool thrown away;
\* the other handlers find the new one.
Reload(a) ==
  /\ running /\ pc[a] = "idle"
  /\ RenewPool(<<>>)
  /\ op' = [b \in Admins |->
             IF pc[b] = "change" /\ op[b].do \in {"add", "remove"}
             THEN [do |-> "lost", by |-> op[b].do] ELSE op[b]]
  /\ solo' = Quiet /\ saved' = "nobody"
  /\ UNCHANGED <<running, keysFile, encFile, pc, copied, entries, command, cut>>

AddKey(a) ==
  /\ pc[a] = "change" /\ op[a].do = "add"
  /\ Len(keys) < MaxKeys
  /\ Pool!AddKey(op[a].key)
  /\ Goto(a, "copy")
  /\ UNCHANGED <<running, keysFile, encFile, op, copied, entries, command,
                 history>>

\* Mutant: a removal is not saved.
ChangeKeyUnsaved(a) ==
  /\ pc[a] = "change" /\ op[a].do \in Indexed /\ op[a].index \in DOMAIN keys
  /\ IF op[a].do = "disable"
     THEN /\ Pool!Disable(op[a].index)
          /\ Goto(a, "copy")
          /\ UNCHANGED <<op, copied, entries>>
     ELSE Pool!RemoveKey(op[a].index) /\ Return(a)
  /\ UNCHANGED <<running, keysFile, encFile, command, history>>

ChangeKey(a) ==
  /\ pc[a] = "change" /\ op[a].do \in Indexed /\ op[a].index \in DOMAIN keys
  /\ IF op[a].do = "disable" THEN Pool!Disable(op[a].index)
                             ELSE Pool!RemoveKey(op[a].index)
  /\ Goto(a, "copy")
  /\ UNCHANGED <<running, keysFile, encFile, op, copied, entries, command,
                 history>>

\* The index is gone meanwhile.  deleteKeyHandler ("delete") ignores the pool's
\* error and saves all the same.
ChangeFails(a) ==
  /\ pc[a] = "change" /\ op[a].do \in Indexed /\ op[a].index \notin DOMAIN keys
  /\ IF op[a].do = "delete"
     THEN Goto(a, "copy") /\ UNCHANGED <<op, copied, entries>>
     ELSE Return(a)
  /\ UNCHANGED <<running, poolVars, keysFile, encFile, command, history>>

\* The change is made to a pool nobody uses any more, and the one in use is saved.
\* A removal fails if another call was faster.
ChangeLost(a) ==
  /\ pc[a] = "change" /\ op[a].do = "lost"
  /\ \/ Goto(a, "copy") /\ UNCHANGED <<op, copied, entries>>
     \/ op[a].by = "remove" /\ Return(a)
  /\ UNCHANGED <<running, poolVars, keysFile, encFile, command, history>>

CopyKeys(a) ==
  /\ pc[a] = "copy"
  /\ copied' = [copied EXCEPT ![a] = keys]
  /\ Goto(a, IF keys = <<>> THEN "open" ELSE "flags")
  /\ UNCHANGED <<running, poolVars, keysFile, encFile, op, entries, command,
                 history>>

\* Mutant: the loop stops one key early.
ReadFlagShort(a) ==
  LET i    == Len(entries[a]) + 1
      flag == i \in DOMAIN disabled /\ disabled[i]
  IN  /\ pc[a] = "flags"
      /\ entries' = [entries EXCEPT ![a] =
                       Append(@, [key |-> copied[a][i], disabled |-> flag])]
      /\ Goto(a, IF i >= Len(copied[a]) - 1 THEN "open" ELSE "flags")
      /\ UNCHANGED <<running, poolVars, keysFile, encFile, op, copied, command,
                     history>>

\* pool.IsDisabled(i) of the next i; false beyond the end of the pool.
ReadFlag(a) ==
  LET i    == Len(entries[a]) + 1
      flag == i \in DOMAIN disabled /\ disabled[i]
  IN  /\ pc[a] = "flags"
      /\ entries' = [entries EXCEPT ![a] =
                       Append(@, [key |-> copied[a][i], disabled |-> flag])]
      /\ Goto(a, IF i = Len(copied[a]) THEN "open" ELSE "flags")
      /\ UNCHANGED <<running, poolVars, keysFile, encFile, op, copied, command,
                     history>>

TruncateKeysFile(a) ==
  /\ pc[a] = "open"
  /\ keysFile' = Torn
  /\ Goto(a, "write")
  /\ UNCHANGED <<running, poolVars, encFile, op, copied, entries, command,
                 history>>

WriteKeysFile(a) ==
  /\ pc[a] = "write"
  /\ keysFile' \in Written(keysFile, entries[a])
  /\ saved' = IF solo THEN "alone" ELSE "raced"
  /\ Return(a)
  /\ UNCHANGED <<running, poolVars, encFile, command, solo, cut>>

------------------------------------------------------------------------------
(* alvus key add, remove and disable, one command at a time.               *)

Edits(es) ==
  {Append(es, [key      |-> IF Sealing THEN Seal(k) ELSE k,
               disabled |-> FALSE]) : k \in KeyIds}
    \cup {RemoveAt(es, i) : i \in DOMAIN es}
    \cup {[es EXCEPT ![i].disabled = TRUE] : i \in DOMAIN es}

\* A file that cannot be parsed ends the command.
LoadEncFile ==
  /\ command.step = "idle" /\ encFile.form # "torn"
  /\ \E es \in Edits(encFile.entries) \cap Listings :
       command' = [step |-> "open", store |-> es]
  /\ UNCHANGED <<running, poolVars, keysFile, encFile, adminVars, history>>

TruncateEncFile ==
  /\ command.step = "open"
  /\ encFile' = Torn
  /\ command' = [command EXCEPT !.step = "write"]
  /\ UNCHANGED <<running, poolVars, keysFile, adminVars, history>>

WriteEncFile ==
  /\ command.step = "write"
  /\ encFile' = Store(command.store)
  /\ command' = NoCommand
  /\ UNCHANGED <<running, poolVars, keysFile, adminVars, history>>

InterruptCommand ==
  /\ command.step # "idle"
  /\ command' = NoCommand
  /\ UNCHANGED <<running, poolVars, keysFile, encFile, adminVars, history>>

------------------------------------------------------------------------------
AdminStep(a) ==
  \/ Call(a) \/ Reload(a) \/ AddKey(a) \/ ChangeKey(a) \/ ChangeFails(a)
  \/ ChangeLost(a)
  \/ CopyKeys(a) \/ ReadFlag(a) \/ TruncateKeysFile(a) \/ WriteKeysFile(a)

CommandStep ==
  LoadEncFile \/ TruncateEncFile \/ WriteEncFile \/ InterruptCommand

Next ==
  \/ Start \/ Stop \/ CommandStep
  \/ \E i \in 1..MaxKeys : Retire(i)
  \/ \E a \in Admins : AdminStep(a)

Spec == Init /\ [][Next]_vars

------------------------------------------------------------------------------
Strings == KeyIds \cup {Seal(k) : k \in KeyIds}
Entry   == [key : Strings, disabled : BOOLEAN]
Entries == Seq(Entry)
Files   == [form : {"absent", "torn", "store"}, entries : Entries]
Calls   == {NoOp} \cup [do : {"add"}, key : KeyIds] \cup [do : Indexed, index : Nat]
             \cup [do : {"lost"}, by : {"add", "remove"}]

Labels  == {"idle", "change", "copy", "flags", "open", "write"}

HistoryOK ==
  /\ running \in BOOLEAN /\ solo \in BOOLEAN /\ cut \in BOOLEAN
  /\ saved \in {"nobody", "alone", "raced"}

FilesOK ==
  /\ keysFile \in Files /\ encFile \in Files
  /\ command \in [step : {"idle", "open", "write"}, store : Entries]

CallsOK ==
  /\ pc \in [Admins -> Labels]
  /\ op \in [Admins -> Calls]
  /\ copied \in [Admins -> Seq(Strings)] /\ entries \in [Admins -> Entries]

\* A call has the entries of the first of the keys it copied, and of all of them
\* when it opens the file.
Matches(a) ==
  /\ Len(entries[a]) <= Len(copied[a])
  /\ \A i \in DOMAIN entries[a] : entries[a][i].key = copied[a][i]
  /\ pc[a] = "flags" => Len(entries[a]) < Len(copied[a])
  /\ pc[a] \in {"open", "write"} => Len(entries[a]) = Len(copied[a])

EntriesMatch == \A a \in Admins : Matches(a)

TypeOK == HistoryOK /\ Pool!TypeOK /\ FilesOK /\ CallsOK /\ EntriesMatch

\* The file holds the keys of the pool in their order, and no key as disabled
\* that is not.
FileIsPool ==
  /\ keysFile.form = "store"
  /\ KeysOf(keysFile.entries) = keys
  /\ \A i \in DOMAIN keys : keysFile.entries[i].disabled => disabled[i]

\* A call of the admin API that overlaps no other leaves the file as the pool is,
\* however the calls before it raced and whatever was retired meanwhile.
LoneCallSaves == running /\ Quiet /\ saved = "alone" => FileIsPool

\* "PersistKeys saves the current key pool state to the keys file"
\* (server.go:141): once no call is under way the file is as the pool is.
CallsSave == running /\ Quiet /\ saved # "nobody" => FileIsPool

Restart == ~running /\ running'

\* A key added by the admin API "survives a restart", a deleted one "is gone after
\* restart" (proxy_test.go:1392, 1485): unless it cuts off a call, a stop at any
\* moment changes nothing of the keys that a lone call saved, whatever the
\* commands did meanwhile.
RestartKeepsKeys == [][Restart /\ saved = "alone" /\ ~cut => keys' = keys]_vars

==============================================================================
