---------------------------- MODULE KeyStoreProofs ----------------------------
(***************************************************************************)
(* For any keys, any number of calls of the admin API and any listings of  *)
(* the commands: a call that overlaps no other leaves the file as the pool *)
(* is, and a restart brings back the keys that it saved.                   *)
(***************************************************************************)
EXTENDS KeyStore, SequenceTheorems, TLAPS

AtRest == \A a \in Admins : pc[a] \in {"idle", "change"}

\* Calls are under way only while the server runs, and the latest call, if it had
\* the API to itself when it began, is the only one.
OverlapOK ==
  /\ running \/ Quiet
  /\ running => ~cut
  /\ solo => \A a, b \in Admins : pc[a] # "idle" /\ pc[b] # "idle" => a = b

\* What a lone call has copied is still the pool, but for keys that were retired
\* meanwhile, and nobody else has the file open.
CopyOf(a) ==
  /\ pc[a] \in {"idle", "change", "copy"} => entries[a] = <<>>
  /\ solo /\ pc[a] \in {"flags", "open", "write"} =>
       /\ copied[a] = keys
       /\ \A i \in DOMAIN entries[a] : entries[a][i].disabled => disabled[i]
  /\ solo /\ pc[a] = "write" => keysFile = Torn

CopyIsPool == \A a \in Admins : CopyOf(a)

\* What a lone call has saved stays as the pool is until the next change.
SavedOK == saved = "alone" /\ ~cut /\ AtRest => FileIsPool

IInv == TypeOK /\ OverlapOK /\ CopyIsPool /\ SavedOK

------------------------------------------------------------------------------
(* The slices.                                                             *)

\* What RemoveAt leaves of a sequence.
LEMMA RemoveAtType ==
  ASSUME NEW S, NEW s \in Seq(S), NEW i \in DOMAIN s
  PROVE  RemoveAt(s, i) \in Seq(S) /\ Len(RemoveAt(s, i)) = Len(s) - 1
<1>1. i \in 1..Len(s) /\ Len(s) \in Nat
  OBVIOUS
<1>2. SubSeq(s, 1, i - 1) \in Seq(S) /\ SubSeq(s, i + 1, Len(s)) \in Seq(S)
  BY <1>1
<1> QED
  BY <1>1, <1>2 DEF RemoveAt

\* The keys of a list of entries.
LEMMA KeysOfType ==
  ASSUME NEW es \in Entries
  PROVE  KeysOf(es) \in Seq(Strings) /\ Len(KeysOf(es)) = Len(es)
<1>1. Len(es) \in Nat /\ DOMAIN es = 1..Len(es)
  BY DEF Entries
<1>2. \A i \in 1..Len(es) : es[i] \in Entry
  BY DEF Entries
<1>3. \A i \in 1..Len(es) : es[i].key \in Strings
  BY <1>2 DEF Entry
<1> QED
  BY <1>1, <1>3 DEF KeysOf

\* A new pool.
LEMMA RenewPoolType ==
  ASSUME NEW ks \in Seq(Strings), RenewPool(ks)
  PROVE  Pool!TypeOK'
<1>1. Len(ks) \in Nat /\ DOMAIN ks = 1..Len(ks)
  OBVIOUS
<1>2. cooldowns' \in Seq(Nat) /\ Len(cooldowns') = Len(ks)
  BY <1>1 DEF RenewPool
<1>3. disabled' \in Seq(BOOLEAN) /\ Len(disabled') = Len(ks)
  BY <1>1 DEF RenewPool
<1> QED
  BY <1>2, <1>3 DEF RenewPool, Pool!TypeOK, Strings

\* A disabled flag is raised, and nothing else changes.
LEMMA DisableKeeps ==
  ASSUME Pool!TypeOK, NEW i, Pool!Disable(i)
  PROVE  /\ Pool!TypeOK'
         /\ UNCHANGED <<counter, keys, cooldowns>>
         /\ \A j \in DOMAIN keys : disabled[j] => disabled'[j]
<1>1. CASE UNCHANGED <<counter, keys, cooldowns, disabled>>
  BY <1>1 DEF Pool!TypeOK
<1>2. CASE i \in DOMAIN keys /\ disabled' = [disabled EXCEPT ![i] = TRUE]
           /\ UNCHANGED <<counter, keys, cooldowns>>
  <2>1. disabled \in Seq(BOOLEAN) /\ DOMAIN disabled = DOMAIN keys
    BY DEF Pool!TypeOK
  <2>2. disabled' \in Seq(BOOLEAN) /\ Len(disabled') = Len(disabled)
    BY <1>2, <2>1, ExceptSeq
  <2>3. \A j \in DOMAIN keys : disabled'[j] = IF j = i THEN TRUE ELSE disabled[j]
    BY <1>2, <2>1, Zenon
  <2> QED
    BY <1>2, <2>2, <2>3 DEF Pool!TypeOK
<1> QED
  BY <1>1, <1>2 DEF Pool!Disable, Pool!OutOfRange, Pool!poolVars

LEMMA AddKeyType ==
  ASSUME Pool!TypeOK, NEW k \in KeyIds, Pool!AddKey(k)
  PROVE  Pool!TypeOK'
<1> USE DEF Pool!TypeOK, Pool!AddKey
<1>1. keys' \in Seq(Strings) /\ Len(keys') = Len(keys) + 1
  BY DEF Strings
<1>2. cooldowns' \in Seq(Nat) /\ Len(cooldowns') = Len(cooldowns) + 1
  OBVIOUS
<1>3. disabled' \in Seq(BOOLEAN) /\ Len(disabled') = Len(disabled) + 1
  BY AppendProperties
<1> QED
  BY <1>1, <1>2, <1>3 DEF Strings

LEMMA RemoveKeyType ==
  ASSUME Pool!TypeOK, NEW i, Pool!RemoveKey(i)
  PROVE  Pool!TypeOK'
<1> USE DEF Pool!TypeOK
<1>1. CASE UNCHANGED <<counter, keys, cooldowns, disabled>>
  BY <1>1
<1>2. CASE /\ i \in DOMAIN keys /\ UNCHANGED counter
           /\ keys' = RemoveAt(keys, i)
           /\ cooldowns' = RemoveAt(cooldowns, i)
           /\ disabled' = RemoveAt(disabled, i)
  <2>1. keys \in Seq(Strings) /\ i \in DOMAIN keys
    BY <1>2 DEF Strings
  <2>2. i \in DOMAIN cooldowns /\ i \in DOMAIN disabled
    BY <1>2
  <2>3. keys' \in Seq(Strings) /\ Len(keys') = Len(keys) - 1
    BY <1>2, <2>1, RemoveAtType
  <2>4. cooldowns' \in Seq(Nat) /\ Len(cooldowns') = Len(cooldowns) - 1
    BY <1>2, <2>2, RemoveAtType
  <2>5. disabled' \in Seq(BOOLEAN) /\ Len(disabled') = Len(disabled) - 1
    BY <1>2, <2>2, RemoveAtType
  <2> QED
    BY <1>2, <2>3, <2>4, <2>5 DEF Strings
<1> QED
  BY <1>1, <1>2
     DEF Pool!RemoveKey, Pool!OutOfRange, Pool!poolVars, Pool!RemoveAt, RemoveAt

------------------------------------------------------------------------------
(* The server process and the commands.                                    *)

\* A file and a fresh command are well typed.
LEMMA FileTypes ==
  /\ Absent \in Files /\ Torn \in Files /\ NoOp \in Calls
  /\ \A es \in Entries : Store(es) \in Files
  /\ NoCommand \in [step : {"idle", "open", "write"}, store : Entries]
  /\ <<>> \in Entries
<1>1. <<>> \in Entries
  BY DEF Entries
<1> QED
  BY <1>1 DEF Absent, Torn, Store, Files, NoOp, Calls, NoCommand

\* At the start there is nothing to be wrong about.
LEMMA InitInv == Init => IInv
<1> SUFFICES ASSUME Init
             PROVE  IInv
  OBVIOUS
<1>1. HistoryOK
  BY DEF Init, HistoryOK
<1>2. Pool!TypeOK
  <2>1. <<>> \in Seq(KeyIds) /\ Len(<<>>) = 0 /\ DOMAIN <<>> = 1..0
    OBVIOUS
  <2>2. cooldowns \in Seq(Nat) /\ Len(cooldowns) = 0
    BY <2>1 DEF Init, Pool!NewKeyPool
  <2>3. disabled \in Seq(BOOLEAN) /\ Len(disabled) = 0
    BY <2>1 DEF Init, Pool!NewKeyPool
  <2> QED
    BY <2>1, <2>2, <2>3 DEF Init, Pool!NewKeyPool, Pool!TypeOK
<1>3. FilesOK
  BY FileTypes DEF Init, FilesOK
<1>4. CallsOK
  BY FileTypes DEF Init, CallsOK, Labels
<1>5. \A a \in Admins : pc[a] = "idle" /\ copied[a] = <<>> /\ entries[a] = <<>>
  BY DEF Init
<1>6. EntriesMatch
  BY <1>5 DEF EntriesMatch, Matches
<1>7. OverlapOK /\ CopyIsPool /\ SavedOK
  BY <1>5 DEF Init, OverlapOK, Quiet, CopyIsPool, CopyOf, SavedOK
<1> QED
  BY <1>1, <1>2, <1>3, <1>4, <1>6, <1>7 DEF IInv, TypeOK

\* A step that leaves the calls, their order and what they read alone.
LEMMA CallsStay ==
  ASSUME EntriesMatch, CallsOK, UNCHANGED adminVars
  PROVE  EntriesMatch' /\ CallsOK'
BY DEF EntriesMatch, Matches, CallsOK, Labels, adminVars

LEMMA StartKeeps ==
  ASSUME IInv, Start
  PROVE  IInv'
<1> USE DEF IInv, TypeOK
<1>1. Loaded \in Entries
  BY FileTypes DEF FilesOK, Files, Loaded
<1>2. Pool!TypeOK'
  BY <1>1, KeysOfType, RenewPoolType DEF Start
<1>3. HistoryOK' /\ FilesOK'
  BY DEF Start, HistoryOK, FilesOK
<1>4. EntriesMatch' /\ CallsOK'
  BY CallsStay DEF Start
<1>5. \A a \in Admins : pc'[a] = "idle" /\ entries'[a] = <<>>
  BY DEF Start, adminVars, OverlapOK, Quiet, CopyIsPool, CopyOf
<1>6. OverlapOK' /\ CopyIsPool' /\ SavedOK'
  BY <1>5 DEF Start, OverlapOK, Quiet, CopyIsPool, CopyOf, SavedOK
<1> QED
  BY <1>2, <1>3, <1>4, <1>6

LEMMA StopKeeps ==
  ASSUME IInv, Stop
  PROVE  IInv'
<1> USE DEF IInv, TypeOK
<1>1. Pool!TypeOK' /\ FilesOK' /\ HistoryOK'
  BY DEF Stop, poolVars, Pool!TypeOK, FilesOK, HistoryOK
<1>2. CallsOK'
  BY FileTypes DEF Stop, CallsOK, Labels
<1>3. \A a \in Admins : pc'[a] = "idle" /\ copied'[a] = <<>> /\ entries'[a] = <<>>
  BY DEF Stop
<1>4. EntriesMatch'
  BY <1>3 DEF EntriesMatch, Matches
<1>5. OverlapOK' /\ CopyIsPool'
  BY <1>3 DEF Stop, OverlapOK, Quiet, CopyIsPool, CopyOf
<1>6. SavedOK'
  <2> SUFFICES ASSUME saved = "alone", ~cut'
               PROVE  FileIsPool'
    BY DEF SavedOK, Stop
  <2>1. AtRest /\ ~cut
    BY DEF Stop, AtRest, OverlapOK
  <2> QED
    BY <2>1 DEF SavedOK, FileIsPool, Stop, poolVars
<1> QED
  BY <1>1, <1>2, <1>4, <1>5, <1>6

\* A retirement raises a flag of the pool that nothing saved denies.
LEMMA RetireKeeps ==
  ASSUME IInv, NEW i, Retire(i)
  PROVE  IInv'
<1> USE DEF IInv, TypeOK
<1>1. /\ Pool!TypeOK' /\ UNCHANGED keys
      /\ \A j \in DOMAIN keys : disabled[j] => disabled'[j]
  BY DisableKeeps DEF Retire
<1>2. HistoryOK' /\ FilesOK' /\ OverlapOK'
  BY DEF Retire, HistoryOK, FilesOK, OverlapOK, Quiet, history, adminVars
<1>3. EntriesMatch' /\ CallsOK'
  BY CallsStay DEF Retire
<1>4. CopyIsPool'
  <2> SUFFICES ASSUME NEW a \in Admins, solo, pc[a] \in {"flags", "open", "write"},
                      NEW j \in DOMAIN entries[a], entries[a][j].disabled
               PROVE  disabled'[j]
    BY <1>1 DEF CopyIsPool, CopyOf, Retire, history, adminVars
  <2>1. copied[a] = keys /\ disabled[j]
    BY DEF CopyIsPool, CopyOf
  <2>2. Len(entries[a]) <= Len(copied[a]) /\ entries[a] \in Seq(Entry)
        /\ copied[a] \in Seq(Strings)
    BY DEF EntriesMatch, Matches, CallsOK, Labels, Entries
  <2>3. j \in DOMAIN keys
    BY <2>1, <2>2
  <2> QED
    BY <1>1, <2>1, <2>3
<1>5. SavedOK'
  BY <1>1 DEF SavedOK, AtRest, FileIsPool, Retire, history, adminVars
<1> QED
  BY <1>1, <1>2, <1>3, <1>4, <1>5

\* What the commands do is no concern of the server's.
LEMMA EncFileIsApart ==
  ASSUME IInv, FilesOK', UNCHANGED <<running, poolVars, keysFile, adminVars, history>>
  PROVE  IInv'
<1> USE DEF IInv, TypeOK, poolVars, adminVars, history
<1>1. HistoryOK' /\ Pool!TypeOK'
  BY DEF HistoryOK, Pool!TypeOK
<1>2. EntriesMatch' /\ CallsOK'
  BY CallsStay
<1>3. OverlapOK' /\ CopyIsPool' /\ SavedOK'
  BY DEF OverlapOK, Quiet, CopyIsPool, CopyOf, SavedOK, AtRest, FileIsPool
<1> QED
  BY <1>1, <1>2, <1>3

LEMMA CommandKeeps ==
  ASSUME IInv, CommandStep
  PROVE  IInv'
<1> USE DEF IInv, TypeOK, FilesOK
<1>1. CASE LoadEncFile
  <2>1. encFile.entries \in Entries
    BY DEF Files
  <2>2. ASSUME NEW es \in Edits(encFile.entries)
        PROVE  es \in Entries
    <3>1. ASSUME NEW k \in KeyIds,
                 es = Append(encFile.entries,
                             [key      |-> IF Sealing THEN Seal(k) ELSE k,
                              disabled |-> FALSE])
          PROVE  es \in Entries
      <4>1. [key |-> IF Sealing THEN Seal(k) ELSE k, disabled |-> FALSE] \in Entry
        BY DEF Entry, Strings
      <4> QED
        BY <2>1, <3>1, <4>1, AppendProperties DEF Entries
    <3>2. ASSUME NEW i \in DOMAIN encFile.entries, es = RemoveAt(encFile.entries, i)
          PROVE  es \in Entries
      BY <2>1, <3>2, RemoveAtType DEF Entries
    <3>3. ASSUME NEW i \in DOMAIN encFile.entries,
                 es = [encFile.entries EXCEPT ![i].disabled = TRUE]
          PROVE  es \in Entries
      <4> DEFINE e == [encFile.entries[i] EXCEPT !.disabled = TRUE]
      <4>1. encFile.entries[i] \in Entry
        BY <2>1 DEF Entries
      <4>2. e \in Entry
        BY <4>1 DEF Entry
      <4>3. es = [encFile.entries EXCEPT ![i] = e]
        BY <3>3
      <4> HIDE DEF e
      <4> QED
        BY <2>1, <4>2, <4>3, ExceptSeq DEF Entries
    <3> QED
      BY <3>1, <3>2, <3>3 DEF Edits
  <2>3. FilesOK'
    BY <1>1, <2>2 DEF LoadEncFile
  <2> QED
    BY <1>1, <2>3, EncFileIsApart DEF LoadEncFile
<1>2. CASE TruncateEncFile
  <2>1. FilesOK'
    BY <1>2, FileTypes DEF TruncateEncFile
  <2> QED
    BY <1>2, <2>1, EncFileIsApart DEF TruncateEncFile
<1>3. CASE WriteEncFile
  <2>1. FilesOK'
    BY <1>3, FileTypes DEF WriteEncFile
  <2> QED
    BY <1>3, <2>1, EncFileIsApart DEF WriteEncFile
<1>4. CASE InterruptCommand
  <2>1. FilesOK'
    BY <1>4, FileTypes DEF InterruptCommand
  <2> QED
    BY <1>4, <2>1, EncFileIsApart DEF InterruptCommand
<1> QED
  BY <1>1, <1>2, <1>3, <1>4 DEF CommandStep
------------------------------------------------------------------------------
(* A call of the admin API.                                                *)

\* What a step of one call has to show of itself for all of them.
LEMMA OneCallActs ==
  ASSUME IInv, NEW a \in Admins, pc[a] # "idle", NEW l \in Labels, Goto(a, l),
         UNCHANGED <<running, solo, cut>>,
         \A b \in Admins \ {a} : copied'[b] = copied[b] /\ entries'[b] = entries[b],
         Matches(a)', CopyOf(a)'
  PROVE  EntriesMatch' /\ OverlapOK' /\ CopyIsPool'
<1> USE DEF IInv, TypeOK
<1>1. /\ pc'[a] = l
      /\ \A b \in Admins \ {a} : pc'[b] = pc[b]
  BY DEF Goto, CallsOK
<1>2. running /\ running'
  BY DEF OverlapOK, Quiet
<1>3. solo => \A b \in Admins \ {a} : pc[b] = "idle"
  BY DEF OverlapOK
<1>4. \A b \in Admins \ {a} : Matches(b)'
  BY <1>1 DEF EntriesMatch, Matches
<1>5. \A b \in Admins \ {a} : CopyOf(b)'
  BY <1>1, <1>3 DEF CopyIsPool, CopyOf
<1>6. OverlapOK'
  BY <1>1, <1>2, <1>3 DEF OverlapOK
<1> QED
  BY <1>4, <1>5, <1>6 DEF EntriesMatch, CopyIsPool

LEMMA CallKeeps ==
  ASSUME IInv, NEW a \in Admins, Call(a)
  PROVE  IInv'
<1> USE DEF IInv, TypeOK
<1>1. Pool!TypeOK' /\ FilesOK' /\ HistoryOK'
  BY DEF Call, poolVars, Pool!TypeOK, FilesOK, HistoryOK, Quiet
<1>2. /\ pc'[a] = "change" /\ pc[a] = "idle"
      /\ \A b \in Admins \ {a} : pc'[b] = pc[b]
  BY DEF Call, Goto, CallsOK
<1>3. CallsOK'
  <2>1. \A i \in DOMAIN keys : i \in Nat
    BY DEF Pool!TypeOK
  <2>2. Ops \subseteq Calls
    BY <2>1 DEF Ops, Calls
  <2> QED
    BY <2>2 DEF Call, Goto, CallsOK, Labels
<1>4. EntriesMatch'
  BY <1>2 DEF Call, EntriesMatch, Matches
<1>5. OverlapOK'
  BY <1>2 DEF Call, OverlapOK, Quiet
<1>6. CopyIsPool'
  BY <1>2 DEF Call, CopyIsPool, CopyOf, Quiet
<1>7. SavedOK'
  <2>1. AtRest' => AtRest
    BY <1>2 DEF AtRest
  <2> QED
    BY <2>1 DEF Call, poolVars, SavedOK, FileIsPool
<1> QED
  BY <1>1, <1>3, <1>4, <1>5, <1>6, <1>7

LEMMA ReloadKeeps ==
  ASSUME IInv, NEW a \in Admins, Reload(a)
  PROVE  IInv'
<1> USE DEF IInv, TypeOK
<1>1. Pool!TypeOK'
  <2>1. <<>> \in Seq(Strings)
    OBVIOUS
  <2> QED
    BY <2>1, RenewPoolType DEF Reload
<1>2. FilesOK' /\ HistoryOK'
  BY DEF Reload, FilesOK, HistoryOK, Quiet
<1>3. CallsOK'
  <2>1. ASSUME NEW b \in Admins
        PROVE  op'[b] \in Calls
    <3>1. CASE pc[b] = "change" /\ op[b].do \in {"add", "remove"}
      BY <3>1 DEF Reload, Calls
    <3>2. CASE ~(pc[b] = "change" /\ op[b].do \in {"add", "remove"})
      <4>1. op'[b] = op[b]
        BY <3>2 DEF Reload
      <4> QED
        BY <4>1 DEF CallsOK
    <3> QED
      BY <3>1, <3>2
  <2>2. op' = [b \in Admins |-> op'[b]]
    BY DEF Reload
  <2>3. op' \in [Admins -> Calls]
    BY <2>1, <2>2
  <2> QED
    BY <2>3 DEF Reload, CallsOK
<1>4. EntriesMatch'
  BY DEF Reload, EntriesMatch, Matches
<1>5. OverlapOK'
  BY DEF Reload, OverlapOK, Quiet
<1>6. CopyIsPool'
  BY DEF Reload, CopyIsPool, CopyOf, Quiet
<1>7. SavedOK'
  BY DEF Reload, SavedOK
<1> QED
  BY <1>1, <1>2, <1>3, <1>4, <1>5, <1>6, <1>7

\* After its change, made or lost, a call has nothing of the pool in hand yet.
LEMMA ChangedKeeps ==
  ASSUME IInv, NEW a \in Admins, pc[a] = "change", Goto(a, "copy"), Pool!TypeOK',
         UNCHANGED <<running, keysFile, encFile, op, copied, entries, command, history>>
  PROVE  IInv'
<1> USE DEF IInv, TypeOK, history
<1>1. FilesOK' /\ HistoryOK'
  BY DEF FilesOK, HistoryOK
<1>2. pc'[a] = "copy"
  BY DEF Goto, CallsOK
<1>3. CallsOK'
  BY DEF Goto, CallsOK, Labels
<1>4. Matches(a)' /\ CopyOf(a)'
  BY <1>2 DEF EntriesMatch, Matches, CopyIsPool, CopyOf
<1>5. EntriesMatch' /\ OverlapOK' /\ CopyIsPool'
  BY <1>4, OneCallActs DEF Labels
<1>6. SavedOK'
  BY <1>2 DEF SavedOK, AtRest
<1> QED
  BY <1>1, <1>3, <1>5, <1>6

\* A call that returns has nothing in hand.
LEMMA ReturnKeeps ==
  ASSUME IInv, NEW a \in Admins, pc[a] # "idle", Return(a),
         UNCHANGED <<running, solo, cut>>
  PROVE  /\ CallsOK' /\ EntriesMatch' /\ OverlapOK' /\ CopyIsPool'
         /\ pc'[a] = "idle"
         /\ \A b \in Admins \ {a} : pc'[b] = pc[b]
<1> USE DEF IInv, TypeOK
<1>1. CallsOK'
  BY FileTypes DEF Return, Goto, CallsOK, Labels
<1>2. /\ pc'[a] = "idle" /\ copied'[a] = <<>> /\ entries'[a] = <<>>
      /\ \A b \in Admins \ {a} : /\ pc'[b] = pc[b]
                                 /\ copied'[b] = copied[b] /\ entries'[b] = entries[b]
  BY DEF Return, Goto, CallsOK
<1>3. Matches(a)' /\ CopyOf(a)'
  BY <1>2 DEF Matches, CopyOf
<1>4. EntriesMatch' /\ OverlapOK' /\ CopyIsPool'
  BY <1>2, <1>3, OneCallActs DEF Return, Labels
<1> QED
  BY <1>1, <1>2, <1>4

\* A call that returns without a change leaves what was saved as it was.
LEMMA RefusedKeeps ==
  ASSUME IInv, NEW a \in Admins, pc[a] = "change", Return(a),
         UNCHANGED <<running, poolVars, keysFile, encFile, command, history>>
  PROVE  IInv'
<1> USE DEF IInv, TypeOK, history
<1>1. Pool!TypeOK' /\ FilesOK' /\ HistoryOK'
  BY DEF poolVars, Pool!TypeOK, FilesOK, HistoryOK
<1>2. /\ CallsOK' /\ EntriesMatch' /\ OverlapOK' /\ CopyIsPool'
      /\ \A b \in Admins \ {a} : pc'[b] = pc[b]
  BY ReturnKeeps
<1>3. SavedOK'
  <2>1. AtRest' => AtRest
    BY <1>2 DEF AtRest
  <2> QED
    BY <2>1 DEF poolVars, SavedOK, FileIsPool
<1> QED
  BY <1>1, <1>2, <1>3

LEMMA AddKeyKeeps ==
  ASSUME IInv, NEW a \in Admins, AddKey(a)
  PROVE  IInv'
<1>1. op[a].key \in KeyIds
  <2>1. op[a] \in Calls /\ op[a].do = "add"
    BY DEF IInv, TypeOK, CallsOK, AddKey
  <2> QED
    BY <2>1 DEF Calls, NoOp, Indexed
<1>2. Pool!TypeOK'
  BY <1>1, AddKeyType DEF IInv, TypeOK, AddKey
<1> QED
  BY <1>2, ChangedKeeps DEF AddKey

LEMMA ChangeKeyKeeps ==
  ASSUME IInv, NEW a \in Admins, ChangeKey(a)
  PROVE  IInv'
<1>1. Pool!TypeOK'
  <2>1. CASE Pool!Disable(op[a].index)
    BY <2>1, DisableKeeps DEF IInv, TypeOK
  <2>2. CASE Pool!RemoveKey(op[a].index)
    BY <2>2, RemoveKeyType DEF IInv, TypeOK
  <2> QED
    BY <2>1, <2>2 DEF ChangeKey
<1> QED
  BY <1>1, ChangedKeeps DEF ChangeKey

LEMMA NoChangeKeeps ==
  ASSUME IInv, NEW a \in Admins, ChangeFails(a) \/ ChangeLost(a)
  PROVE  IInv'
<1>1. Pool!TypeOK'
  BY DEF IInv, TypeOK, ChangeFails, ChangeLost, poolVars, Pool!TypeOK
<1>2. CASE Goto(a, "copy") /\ UNCHANGED <<op, copied, entries>>
  BY <1>1, <1>2, ChangedKeeps DEF ChangeFails, ChangeLost
<1>3. CASE Return(a)
  BY <1>3, RefusedKeeps DEF ChangeFails, ChangeLost
<1> QED
  BY <1>2, <1>3 DEF ChangeFails, ChangeLost
\* A call with keys in hand is not at rest.
LEMMA BusyIsSaved ==
  ASSUME NEW a \in Admins, pc'[a] \notin {"idle", "change"}
  PROVE  SavedOK'
BY DEF SavedOK, AtRest

LEMMA CopyKeysKeeps ==
  ASSUME IInv, NEW a \in Admins, CopyKeys(a)
  PROVE  IInv'
<1> USE DEF IInv, TypeOK, history
<1> DEFINE l == IF keys = <<>> THEN "open" ELSE "flags"
<1>1. Pool!TypeOK' /\ FilesOK' /\ HistoryOK'
  BY DEF CopyKeys, poolVars, Pool!TypeOK, FilesOK, HistoryOK
<1>2. keys \in Seq(Strings)
  BY DEF Pool!TypeOK, Strings
<1>3. l \in Labels /\ l \notin {"idle", "change", "copy", "write"}
      /\ (l = "flags" => Len(keys) > 0) /\ (l = "open" => Len(keys) = 0)
  BY <1>2 DEF Labels
<1>4. pc[a] = "copy" /\ Goto(a, l)
  BY DEF CopyKeys
<1> HIDE DEF l
<1>5. CallsOK'
  BY <1>2, <1>3, <1>4 DEF CopyKeys, Goto, CallsOK
<1>6. /\ pc'[a] = l /\ copied'[a] = keys /\ entries'[a] = <<>>
      /\ \A b \in Admins \ {a} : copied'[b] = copied[b] /\ entries'[b] = entries[b]
  BY <1>4 DEF CopyKeys, Goto, CallsOK, CopyIsPool, CopyOf
<1>7. Matches(a)'
  BY <1>2, <1>3, <1>6 DEF Matches
<1>8. CopyOf(a)'
  BY <1>3, <1>6 DEF CopyOf, CopyKeys, poolVars
<1>9. EntriesMatch' /\ OverlapOK' /\ CopyIsPool'
  BY <1>3, <1>4, <1>6, <1>7, <1>8, OneCallActs DEF CopyKeys
<1>10. SavedOK'
  BY <1>3, <1>6, BusyIsSaved
<1> QED
  BY <1>1, <1>5, <1>9, <1>10

LEMMA ReadFlagKeeps ==
  ASSUME IInv, NEW a \in Admins, ReadFlag(a)
  PROVE  IInv'
<1> USE DEF IInv, TypeOK, history
<1> DEFINE i    == Len(entries[a]) + 1
           flag == i \in DOMAIN disabled /\ disabled[i]
           e    == [key |-> copied[a][i], disabled |-> flag]
           l    == IF i = Len(copied[a]) THEN "open" ELSE "flags"
<1>1. Pool!TypeOK' /\ FilesOK' /\ HistoryOK'
  BY DEF ReadFlag, poolVars, Pool!TypeOK, FilesOK, HistoryOK
<1>2. /\ pc[a] = "flags" /\ Goto(a, l)
      /\ entries' = [entries EXCEPT ![a] = Append(entries[a], e)]
      /\ UNCHANGED copied
  BY DEF ReadFlag
<1>3. /\ entries[a] \in Seq(Entry) /\ copied[a] \in Seq(Strings)
      /\ Len(entries[a]) < Len(copied[a])
  BY <1>2 DEF CallsOK, Entries, EntriesMatch, Matches
<1>4. i \in 1..Len(copied[a]) /\ Len(entries[a]) \in Nat /\ Len(copied[a]) \in Nat
  BY <1>3
<1>5. l \in Labels /\ l \notin {"idle", "change", "copy", "write"}
      /\ (l = "flags" => i < Len(copied[a])) /\ (l = "open" => i = Len(copied[a]))
  BY <1>4 DEF Labels
<1>6. e.key = copied[a][i] /\ (e.disabled => i \in DOMAIN disabled /\ disabled[i])
  OBVIOUS
<1>7. e \in Entry
  <2>1. copied[a][i] \in Strings
    BY <1>3, <1>4
  <2>2. flag \in BOOLEAN
    BY DEF Pool!TypeOK
  <2> HIDE DEF flag
  <2> QED
    BY <2>1, <2>2 DEF Entry
<1> DEFINE new == Append(entries[a], e)
<1> HIDE DEF e, flag, l
<1>8. /\ new \in Seq(Entry) /\ Len(new) = i
      /\ \A j \in 1..Len(entries[a]) : new[j] = entries[a][j]
      /\ new[i] = e
  BY <1>3, <1>7, AppendProperties
<1> HIDE DEF new
<1>9. /\ pc'[a] = l /\ copied'[a] = copied[a] /\ entries'[a] = new
      /\ \A b \in Admins \ {a} : copied'[b] = copied[b] /\ entries'[b] = entries[b]
  BY <1>2 DEF Goto, CallsOK, new
<1>10. CallsOK'
  <2>1. entries' \in [Admins -> Entries]
    BY <1>2, <1>8 DEF CallsOK, Entries, new
  <2> QED
    BY <2>1, <1>2, <1>5 DEF ReadFlag, Goto, CallsOK
<1>11. ASSUME NEW j \in DOMAIN new
       PROVE  j \in 1..Len(entries[a]) \/ j = i
  BY <1>4, <1>8
<1>12. Matches(a)'
  <2>1. \A j \in DOMAIN new : new[j].key = copied[a][j]
    BY <1>3, <1>6, <1>8, <1>11 DEF EntriesMatch, Matches
  <2> QED
    BY <1>4, <1>5, <1>8, <1>9, <2>1 DEF Matches
<1>13. CopyOf(a)'
  <2>1. ASSUME solo
        PROVE  copied[a] = keys /\ \A j \in DOMAIN new : new[j].disabled => disabled[j]
    <3>1. /\ copied[a] = keys
          /\ \A j \in DOMAIN entries[a] : entries[a][j].disabled => disabled[j]
      BY <1>2, <2>1 DEF CopyIsPool, CopyOf
    <3> QED
      BY <1>3, <1>6, <1>8, <1>11, <3>1
  <2> QED
    BY <1>5, <1>9, <2>1 DEF CopyOf, ReadFlag, poolVars
<1>14. EntriesMatch' /\ OverlapOK' /\ CopyIsPool'
  BY <1>2, <1>5, <1>9, <1>12, <1>13, OneCallActs DEF ReadFlag
<1>15. SavedOK'
  BY <1>5, <1>9, BusyIsSaved
<1> QED
  BY <1>1, <1>10, <1>14, <1>15

LEMMA TruncateKeeps ==
  ASSUME IInv, NEW a \in Admins, TruncateKeysFile(a)
  PROVE  IInv'
<1> USE DEF IInv, TypeOK, history
<1>1. Pool!TypeOK' /\ HistoryOK'
  BY DEF TruncateKeysFile, poolVars, Pool!TypeOK, HistoryOK
<1>2. FilesOK'
  BY FileTypes DEF TruncateKeysFile, FilesOK
<1>3. CallsOK'
  BY DEF TruncateKeysFile, Goto, CallsOK, Labels
<1>4. pc'[a] = "write" /\ pc[a] = "open"
  BY DEF TruncateKeysFile, Goto, CallsOK
<1>5. Matches(a)' /\ CopyOf(a)'
  BY <1>4 DEF TruncateKeysFile, poolVars, EntriesMatch, Matches, CopyIsPool, CopyOf
<1>6. EntriesMatch' /\ OverlapOK' /\ CopyIsPool'
  BY <1>4, <1>5, OneCallActs DEF TruncateKeysFile, Labels
<1>7. SavedOK'
  BY <1>4, BusyIsSaved
<1> QED
  BY <1>1, <1>2, <1>3, <1>6, <1>7

\* The file that a lone call writes is as the pool is.
LEMMA WriteKeeps ==
  ASSUME IInv, NEW a \in Admins, WriteKeysFile(a)
  PROVE  IInv'
<1> USE DEF IInv, TypeOK
<1>1. pc[a] = "write" /\ Return(a) /\ UNCHANGED <<running, solo, cut>>
  BY DEF WriteKeysFile
<1>2. Pool!TypeOK' /\ HistoryOK'
  BY DEF WriteKeysFile, poolVars, Pool!TypeOK, HistoryOK
<1>3. FilesOK'
  <2>1. entries[a] \in Entries
    BY DEF CallsOK
  <2>2. Written(keysFile, entries[a]) \subseteq Files
    BY <2>1, FileTypes DEF Written
  <2> QED
    BY <2>2 DEF WriteKeysFile, FilesOK
<1>4. CallsOK' /\ EntriesMatch' /\ OverlapOK' /\ CopyIsPool'
  BY <1>1, ReturnKeeps
<1>5. SavedOK'
  <2> SUFFICES ASSUME solo
               PROVE  FileIsPool'
    BY DEF WriteKeysFile, SavedOK
  <2>1. /\ copied[a] = keys /\ keysFile = Torn
        /\ \A i \in DOMAIN entries[a] : entries[a][i].disabled => disabled[i]
    BY <1>1 DEF CopyIsPool, CopyOf
  <2>2. keysFile' = Store(entries[a])
    BY <2>1 DEF WriteKeysFile, Written, Torn
  <2>3. keysFile'.form = "store" /\ keysFile'.entries = entries[a]
    BY <2>2 DEF Store
  <2>4. /\ entries[a] \in Seq(Entry) /\ keys \in Seq(Strings)
        /\ Len(entries[a]) = Len(keys)
        /\ \A i \in DOMAIN entries[a] : entries[a][i].key = keys[i]
    BY <1>1, <2>1 DEF EntriesMatch, Matches, CallsOK, Entries
  <2>5. KeysOf(entries[a]) = keys
    BY <2>4 DEF KeysOf
  <2>6. \A i \in DOMAIN keys : entries[a][i].disabled => disabled[i]
    BY <2>1, <2>4
  <2> QED
    BY <2>3, <2>5, <2>6 DEF FileIsPool, WriteKeysFile, poolVars
<1> QED
  BY <1>2, <1>3, <1>4, <1>5

------------------------------------------------------------------------------
\* Every step of the server, its calls and the commands keeps the invariant.
LEMMA NextInv == IInv /\ [Next]_vars => IInv'
<1> SUFFICES ASSUME IInv, [Next]_vars
             PROVE  IInv'
  OBVIOUS
<1>1. CASE Start \/ Stop
  BY <1>1, StartKeeps, StopKeeps
<1>2. CASE CommandStep
  BY <1>2, CommandKeeps
<1>3. CASE \E i \in 1..MaxKeys : Retire(i)
  BY <1>3, RetireKeeps
<1>4. CASE \E a \in Admins : AdminStep(a)
  BY <1>4, CallKeeps, ReloadKeeps, AddKeyKeeps, ChangeKeyKeeps, NoChangeKeeps,
     CopyKeysKeeps, ReadFlagKeeps, TruncateKeeps, WriteKeeps DEF AdminStep
<1>5. CASE UNCHANGED vars
  <2>1. FilesOK'
    BY <1>5 DEF vars, IInv, TypeOK, FilesOK
  <2> QED
    BY <1>5, <2>1, EncFileIsApart DEF vars
<1> QED
  BY <1>1, <1>2, <1>3, <1>4, <1>5 DEF Next

LEMMA Invariance == Spec => []IInv
BY InitInv, NextInv, PTL DEF Spec

\* The pool, the files and the calls are well typed, and PersistKeys
\* (server.go:142) makes the entries of the keys it copied, one by one in their
\* order, whatever is done to the pool meanwhile.
THEOREM StoreTypeOK == Spec => []TypeOK
<1>1. IInv => TypeOK
  BY DEF IInv
<1> QED
  BY <1>1, Invariance, PTL

\* A call of the admin API that overlaps no other leaves the file as the pool is
\* (server.go:141), for any number of keys and of calls before it.
THEOREM LoneCallsSave == Spec => []LoneCallSaves
<1>1. IInv => LoneCallSaves
  BY DEF IInv, OverlapOK, SavedOK, LoneCallSaves, AtRest, Quiet
<1> QED
  BY <1>1, Invariance, PTL

\* A restart brings back, in their order, the keys that a lone call saved
\* (start.go:71), unless the stop cut off a call.
THEOREM RestartsKeepKeys == Spec => RestartKeepsKeys
<1>1. IInv /\ [Next]_vars
        => [Restart /\ saved = "alone" /\ ~cut => keys' = keys]_vars
  <2> SUFFICES ASSUME IInv, Next, Restart, saved = "alone", ~cut
               PROVE  keys' = keys
    OBVIOUS
  <2>1. Start
    BY DEF Next, Restart, Stop, CommandStep, LoadEncFile, TruncateEncFile,
           WriteEncFile, InterruptCommand, Retire, AdminStep, Call, Reload, AddKey,
           ChangeKey, ChangeFails, ChangeLost, CopyKeys, ReadFlag,
           TruncateKeysFile, WriteKeysFile
  <2>2. FileIsPool
    BY DEF IInv, OverlapOK, SavedOK, AtRest, Quiet, Restart
  <2> QED
    BY <2>1, <2>2 DEF Start, RenewPool, Loaded, FileIsPool
<1> QED
  BY <1>1, Invariance, PTL DEF Spec, RestartKeepsKeys

===============================================================================
