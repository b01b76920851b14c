---------------------------- MODULE StartupProofs ----------------------------
(***************************************************************************)
(* Proofs about the files of a user, for every number of starts and failed *)
(* steps, every content of the old workspace, every layout the user saves  *)
(* and every set of buttons.                                               *)
(***************************************************************************)
EXTENDS Startup, ActionFileProofs, FiniteSetTheorems

-----------------------------------------------------------------------------
(* A keymap that is written is read back as it was.                        *)

\* The names of a set of buttons are those buttons, each once.
LEMMA NameRefsAre ==
  ASSUME NEW buttons \in SUBSET ButtonIndices
  PROVE  /\ Cardinality(buttons) \in Nat
         /\ NameRefs(buttons) \in Seq(NameRef)
         /\ Len(NameRefs(buttons)) = Cardinality(buttons)
         /\ {NameRefs(buttons)[i].button : i \in DOMAIN NameRefs(buttons)} = buttons
  <1> DEFINE n == Cardinality(buttons)
             f == SetToSeq(buttons)
  <1>1. IsFiniteSet(buttons)
    <2>1. IsFiniteSet(ButtonIndices) BY FS_Interval, ButtonsAssumption DEF ButtonIndices
    <2> QED BY <2>1, FS_Subset
  <1>2. n \in Nat /\ ExistsBijection(1..n, buttons) BY <1>1, FS_CardinalityType
  <1>3. f \in [1..n -> buttons] /\ IsInjective(f)
    <2>1. \E g \in [1..n -> buttons] : IsInjective(g)
      BY <1>2 DEF ExistsBijection, Bijection, Injection
    <2> QED BY <2>1 DEF SetToSeq
  <1>4. f \in Surjection(1..n, buttons)
    <2>1. f \in Injection(1..n, buttons) BY <1>3 DEF Injection
    <2>2. IsFiniteSet(1..n) /\ Cardinality(1..n) = n BY <1>2, FS_Interval
    <2> HIDE DEF f
    <2> QED BY <1>1, <2>1, <2>2, FS_Injection
  <1>5. NameRefs(buttons) = [i \in 1..n |-> [form |-> "name", button |-> f[i]]] BY DEF NameRefs
  <1> HIDE DEF f, n
  <1>6. \A i \in 1..n : f[i] \in buttons BY <1>3
  <1>7. \A b \in buttons : \E i \in 1..n : f[i] = b BY <1>4 DEF Surjection
  <1>8. NameRefs(buttons) \in Seq(NameRef)
        /\ Len(NameRefs(buttons)) = n /\ DOMAIN NameRefs(buttons) = 1..n
    BY <1>2, <1>5, <1>6 DEF NameRef
  <1>9. {NameRefs(buttons)[i].button : i \in DOMAIN NameRefs(buttons)} = buttons
    <2>1. \A i \in 1..n : NameRefs(buttons)[i].button = f[i] BY <1>5
    <2> QED BY <1>6, <1>7, <1>8, <2>1
  <1> QED BY <1>2, <1>8, <1>9 DEF n

\* The entry that is written for a key of a keymap.
EntryOf(k, key) == Entry(PlainLayer(key[1]), key[2], NameRefs(key[3]), MarshalJSON[k[key]])

LEMMA EntryOfIs ==
  ASSUME NEW k, ValidKeymap(k), NEW key \in DOMAIN k
  PROVE  /\ ValidRefs(EntryOf(k, key))
         /\ ParsedEntry(EntryOf(k, key))
         /\ EntryKey(EntryOf(k, key)) = key
         /\ EntryOf(k, key).layer = PlainLayer(key[1])
         /\ UnmarshalJSON[EntryOf(k, key).value] = Reread(k[key])
         /\ EntryOf(k, key) \in WrittenEntry
  <1> DEFINE refs == NameRefs(key[3])
             json == MarshalJSON[k[key]]
             e == EntryOf(k, key)
  <1>1. /\ key[1] \in 0..3 /\ key[2] \in {"button", "combo"}
        /\ key[3] \in SUBSET ButtonIndices /\ key[3] # {}
        /\ key = <<key[1], key[2], key[3]>>
        /\ key[2] = "button" => Cardinality(key[3]) = 1
        /\ k[key] \in Actions
    BY DEF ValidKeymap, ValidKey
  <1>2. /\ refs \in Seq(NameRef)
        /\ Len(refs) = Cardinality(key[3])
        /\ {refs[i].button : i \in DOMAIN refs} = key[3]
    BY <1>1, NameRefsAre
  <1>3. UnmarshalJSON[json] = Reread(k[key]) BY DEF Reread
  <1>4. e = Entry(PlainLayer(key[1]), key[2], refs, json) BY DEF EntryOf
  <1>5. e.layer = PlainLayer(key[1]) /\ e.kind = key[2] /\ e.refs = refs /\ e.value = json
    BY <1>4 DEF Entry
  <1>6. e = Entry(e.layer, e.kind, e.refs, e.value) BY <1>4, <1>5
  <1>7. json \in JSONs BY <1>1, WrittenIsJSON
  <1> HIDE DEF e, refs, json
  <1>layer. /\ e.layer.index = key[1]
         /\ e.layer \in [form : {"plain"}, index : 0..3]
         /\ e.layer \in [form : {"plain", "other"}, index : Int]
    BY <1>1, <1>5 DEF PlainLayer
  <1>8. /\ \A i \in DOMAIN refs : refs[i].button \in ButtonIndices
        /\ refs # <<>>
        /\ refs \in Seq([form : {"index", "name"}, button : Int])
    <2>1. DOMAIN refs = 1..Len(refs) /\ \A i \in 1..Len(refs) : refs[i] \in NameRef
      BY <1>2, LenProperties
    <2>2. NameRef \subseteq [form : {"index", "name"}, button : Int] BY DEF NameRef, ButtonIndices
    <2>3. refs \in Seq([form : {"index", "name"}, button : Int]) BY <1>2, <2>2, SeqMonotonic
    <2>4. \A i \in DOMAIN refs : refs[i].button \in ButtonIndices BY <2>1 DEF NameRef
    <2>5. refs # <<>> BY <1>1, <1>2, <2>1
    <2> QED BY <2>3, <2>4, <2>5
  <1>9. ValidRefs(e) BY <1>1, <1>2, <1>5, <1>8, <1>layer DEF ValidRefs
  <1>10. ParsedEntry(e) BY <1>1, <1>5, <1>6, <1>7, <1>8, <1>layer DEF ParsedEntry
  <1>11. EntryKey(e) = key BY <1>1, <1>2, <1>5, <1>layer DEF EntryKey
  <1>12. e \in WrittenEntry
    BY <1>1, <1>2, <1>5, <1>6, <1>7, <1>layer DEF Entry, WrittenEntry
  <1> QED BY <1>3, <1>5, <1>9, <1>10, <1>11, <1>12 DEF e

LEMMA WrittenKeymap ==
  ASSUME NEW k, ValidKeymap(k)
  PROVE  /\ MarshalKeymap(k) \in KeymapFiles
         /\ MarshalKeymap(k).layers = {EntryOf(k, key) : key \in DOMAIN k}
         /\ \A e \in MarshalKeymap(k).layers : ParsedEntry(e)
  <1>1. MarshalKeymap(k) = [layers |-> {EntryOf(k, key) : key \in DOMAIN k}]
    BY DEF MarshalKeymap, KeymapJSON, EntryOf
  <1>2. MarshalKeymap(k) \in KeymapFiles BY <1>1, EntryOfIs DEF KeymapFiles
  <1> QED BY <1>1, <1>2, EntryOfIs

\* No key of it is named like another shortcut.
PlainKeymap(k) == \A key \in DOMAIN k : IsPlain(k[key])

LEMMA WrittenKeymapIsRead ==
  ASSUME NEW k, ValidKeymap(k), PlainKeymap(k)
  PROVE  ParseKeymap(MarshalKeymap(k)) = {k}
  <1> DEFINE file == MarshalKeymap(k)
  <1>1. ASSUME NEW key \in DOMAIN k
        PROVE  /\ EntryKey(EntryOf(k, key)) = key
               /\ EntryOf(k, key).layer = PlainLayer(key[1])
               /\ UnmarshalJSON[EntryOf(k, key).value] = k[key]
               /\ ValidEntry(EntryOf(k, key))
    <2>1. k[key] \in Actions /\ Reread(k[key]) = k[key] BY PlainReadsBack DEF PlainKeymap
    <2>2. k[key] # Error BY <2>1, ErrorIsNoAction
    <2> QED BY <2>1, <2>2, EntryOfIs DEF ValidEntry
  <1>2. file.layers = {EntryOf(k, key) : key \in DOMAIN k} BY WrittenKeymap
  <1> HIDE DEF file
  <1>4. \A e \in file.layers : ValidEntry(e) BY <1>1, <1>2
  <1>5. {EntryKey(e) : e \in file.layers} = DOMAIN k
    <2>1. \A e \in file.layers : EntryKey(e) \in DOMAIN k BY <1>1, <1>2
    <2>2. \A key \in DOMAIN k : \E e \in file.layers : EntryKey(e) = key BY <1>1, <1>2
    <2> QED BY <2>1, <2>2
  <1>6. ASSUME NEW e \in file.layers
        PROVE  EntryKey(e) \in DOMAIN k /\ UnmarshalJSON[e.value] = k[EntryKey(e)]
    BY <1>1, <1>2
  <1> DEFINE values == {UnmarshalJSON[e.value] : e \in file.layers}
             From(m) == \A key \in DOMAIN m :
                           \E e \in file.layers : EntryKey(e) = key /\ UnmarshalJSON[e.value] = m[key]
             Merged(last) == {e \in file.layers : e.layer = last[e.layer.index]}
  <1>merged. ASSUME NEW last \in LastRefs(file.layers)
         PROVE  Merged(last) = file.layers
    <2>1. ASSUME NEW e \in file.layers
          PROVE  e.layer = last[e.layer.index]
      <3>1. e.layer.index \in DOMAIN last /\ last[e.layer.index].index = e.layer.index
        BY DEF LastRefs
      <3>2. PICK f \in file.layers : last[e.layer.index] = f.layer
        BY <3>1 DEF LastRefs
      <3>3. PICK i, j : e.layer = PlainLayer(i) /\ f.layer = PlainLayer(j) BY <1>1, <1>2
      <3> QED BY <3>1, <3>2, <3>3 DEF PlainLayer
    <2> QED BY <2>1
  <1>last. \E last : last \in LastRefs(file.layers)
    <2> DEFINE refs == {e.layer : e \in file.layers}
               last == [i \in {ref.index : ref \in refs} |-> PlainLayer(i)]
    <2>1. ASSUME NEW ref \in refs PROVE PlainLayer(ref.index) = ref
      <3>1. PICK i : ref = PlainLayer(i) BY <1>1, <1>2
      <3> QED BY <3>1 DEF PlainLayer
    <2>2. last \in [{ref.index : ref \in refs} -> refs] BY <2>1
    <2>3. \A i \in DOMAIN last : last[i].index = i BY DEF PlainLayer
    <2> QED BY <2>2, <2>3 DEF LastRefs
  <1>7. ParseKeymap(file) = {m \in [DOMAIN k -> values] : From(m)}
    <2>1. KeymapsOf(file.layers) = {m \in [DOMAIN k -> values] : From(m)}
      BY <1>5 DEF KeymapsOf
    <2>2. ParseKeymap(file) = UNION {KeymapsOf(Merged(last)) : last \in LastRefs(file.layers)}
      BY <1>4 DEF ParseKeymap
    <2>3. ParseKeymap(file) = KeymapsOf(file.layers)
      <3> HIDE DEF Merged
      <3> QED BY <1>merged, <1>last, <2>2
    <2> QED BY <2>1, <2>3
  <1>8. k \in [DOMAIN k -> values] /\ From(k)
    <2>1. ASSUME NEW key \in DOMAIN k
          PROVE  \E e \in file.layers : EntryKey(e) = key /\ UnmarshalJSON[e.value] = k[key]
      BY <1>1, <1>2
    <2>2. k = [key \in DOMAIN k |-> k[key]] BY DEF ValidKeymap
    <2>3. \A key \in DOMAIN k : k[key] \in values BY <2>1
    <2> HIDE DEF values
    <2>4. k \in [DOMAIN k -> values] BY <2>2, <2>3
    <2> QED BY <2>1, <2>4
  <1>9. ASSUME NEW m \in [DOMAIN k -> values], From(m)
        PROVE  m = k
    <2>1. k = [key \in DOMAIN k |-> k[key]] BY DEF ValidKeymap
    <2>2. \A key \in DOMAIN k : m[key] = k[key] BY <1>6, <1>9
    <2> HIDE DEF values, From
    <2> QED BY <2>1, <2>2
  <1> HIDE DEF values, From
  <1>10. ParseKeymap(file) = {k} BY <1>7, <1>8, <1>9
  <1> QED BY <1>10 DEF file

(* What a keymap file is read as is valid in memory.                       *)
LEMMA ReadKeymap ==
  ASSUME NEW file, \A e \in file.layers : ParsedEntry(e),
         NEW k \in ParseKeymap(file), k # Error
  PROVE  ValidKeymap(k)
  <1>1. \A e \in file.layers : ValidEntry(e) BY DEF ParseKeymap
  <1>last. PICK last \in LastRefs(file.layers) :
          k \in KeymapsOf({e \in file.layers : e.layer = last[e.layer.index]})
    BY <1>1 DEF ParseKeymap
  <1> DEFINE merged == {e \in file.layers : e.layer = last[e.layer.index]}
  <1>2. /\ k \in [{EntryKey(e) : e \in merged} -> {UnmarshalJSON[e.value] : e \in merged}]
        /\ \A key \in DOMAIN k :
             \E e \in merged : EntryKey(e) = key /\ UnmarshalJSON[e.value] = k[key]
    BY <1>last DEF KeymapsOf
  <1>3. k = [key \in DOMAIN k |-> k[key]] BY <1>2
  <1>4. ASSUME NEW key \in DOMAIN k PROVE ValidKey(key) /\ k[key] \in Actions
    <2>1. PICK e \in file.layers : EntryKey(e) = key /\ UnmarshalJSON[e.value] = k[key] BY <1>2
    <2>2. ValidEntry(e) /\ ParsedEntry(e) BY <1>1, <2>1
    <2>3. k[key] \in Actions
      <3>1. UnmarshalJSON[e.value] \in Actions \cup {Error} BY <2>2, ReadIsValid DEF ParsedEntry
      <3> QED BY <2>1, <2>2, <3>1 DEF ValidEntry
    <2> DEFINE refs == e.refs
               buttons == {refs[i].button : i \in DOMAIN refs}
    <2>4. key = <<e.layer.index, e.kind, buttons>> BY <2>1 DEF EntryKey
    <2>5. /\ e.layer.index \in 0..3 /\ e.kind \in {"button", "combo"}
          /\ refs \in Seq([form : {"index", "name"}, button : Int]) /\ refs # <<>>
          /\ e.kind = "button" => Len(refs) = 1
          /\ \A i \in DOMAIN refs : refs[i].button \in ButtonIndices
      BY <2>2 DEF ValidEntry, ValidRefs, ParsedEntry
    <2> HIDE DEF refs
    <2>6. DOMAIN refs = 1..Len(refs) /\ Len(refs) \in Nat /\ Len(refs) # 0
      BY <2>5, LenProperties, EmptySeq
    <2>7. buttons \in SUBSET ButtonIndices /\ buttons # {} BY <2>5, <2>6
    <2>8. ASSUME e.kind = "button" PROVE Cardinality(buttons) = 1
      <3>1. DOMAIN refs = {1} BY <2>5, <2>6, <2>8
      <3>2. buttons = {refs[1].button} BY <3>1
      <3> QED BY <3>2, FS_Singleton
    <2> HIDE DEF buttons
    <2>9. ValidKey(key) BY <2>4, <2>5, <2>7, <2>8 DEF ValidKey
    <2> QED BY <2>3, <2>9
  <1> QED BY <1>3, <1>4 DEF ValidKeymap

-----------------------------------------------------------------------------
(* The invariant, part by part of the state.                               *)

Migrating == {"migrateLayout", "migrateKeymap", "writeMigrated", "migrateIdentity"}
KeymapUnread == {"off", "migrateLayout", "migrateKeymap", "migrateIdentity", "loadKeymap"}
KeymapSaved == {"loadLayout", "saveLayout", "loadIdentity", "running"}

\* Only a start in the canonical workspace migrates.
PhaseInv ==
    /\ phase \in Migrating \cup KeymapUnread \cup KeymapSaved \cup {"saveKeymap", "writeKeymap"}
    /\ root \in Roots
    /\ phase \in Migrating => root = "canonical"

BoundsInv ==
    /\ startupError \subseteq {"workspace", "migration", "keymap", "layout", "identity"}
    /\ starts \in 0..MaxStarts /\ faults \in 0..MaxFaults

\* Layouts of the old workspace stay there; in the new one are layouts that
\* were read or saved.
Written == {MarshalJSON[a] : a \in Actions}
LayoutsInv ==
    /\ layoutFile \in [Roots -> LegacyLayouts \cup Written \cup {Absent}]
    /\ layoutFile["canonical"] \in Written \cup {Absent}

\* A layout that is about to be saved at the start is the one in the file, if
\* there is one, unless the window shows that it could not be read.
LoadedInv ==
    phase = "saveLayout" =>
        /\ layout \in Actions
        /\ layoutFile[root] # Absent /\ "layout" \notin startupError
              => layout = UnmarshalJSON[layoutFile[root]]

\* What the user saved is in the file.
SavedInv ==
    /\ saved = [r \in Roots |-> saved[r]]
    /\ \A r \in Roots : saved[r] # None /\ IsPlain(saved[r]) =>
          saved[r] \in Edits /\ layoutFile[r] = MarshalJSON[saved[r]]

\* Entries parse, those in the new workspace were written by the program, and
\* once the start has saved a keymap without an error it is the one in memory.
KeymapsInv ==
    /\ keymapFile = [r \in Roots |-> keymapFile[r]]
    /\ \A r \in Roots :
          keymapFile[r] \in {Absent, Bad} \/ \A e \in keymapFile[r].layers : ParsedEntry(e)
    /\ keymapFile["canonical"] \in {Absent, Bad} \cup KeymapFiles
    /\ phase \notin KeymapUnread => ValidKeymap(keymap)
    /\ phase \in KeymapSaved /\ "keymap" \notin startupError =>
          keymapFile[root] = MarshalKeymap(keymap)

IdentitiesInv ==
    /\ identityFile = [r \in Roots |-> identityFile[r]]
    /\ identityFile["canonical"] # Bad

StartupInv ==
    /\ PhaseInv /\ BoundsInv /\ LayoutsInv /\ LoadedInv
    /\ SavedInv /\ SavedLayoutComesBack /\ KeymapsInv /\ IdentitiesInv

-----------------------------------------------------------------------------
LEMMA PhaseKept ==
  ASSUME PhaseInv, [Next]_vars
  PROVE  PhaseInv'
  <1> USE DEF PhaseInv, Migrating, KeymapUnread, KeymapSaved, Roots
  <1>1. CASE Resolve BY <1>1 DEF Resolve
  <1>2. CASE MigrateLayout \/ MigrateKeymap \/ WriteMigrated \/ MigrateIdentity
    BY <1>2 DEF MigrateLayout, MigrateKeymap, WriteMigrated, MigrateIdentity
  <1>3. CASE LoadKeymap \/ SaveKeymap \/ WriteKeymap BY <1>3 DEF LoadKeymap, SaveKeymap, WriteKeymap
  <1>4. CASE LoadLayout \/ SaveLayout \/ LoadIdentity
    BY <1>4 DEF LoadLayout, SaveLayout, LoadIdentity
  <1>5. CASE UserSaves \/ Connects \/ Ends BY <1>5 DEF UserSaves, Connects, Ends
  <1>6. CASE UNCHANGED vars BY <1>6 DEF vars
  <1> QED BY <1>1, <1>2, <1>3, <1>4, <1>5, <1>6 DEF Next

LEMMA BoundsKept ==
  ASSUME BoundsInv, [Next]_vars
  PROVE  BoundsInv'
  <1> DEFINE Parts == {"workspace", "migration", "keymap", "layout", "identity"}
             Told == startupError' \subseteq Parts
             Counted == faults' \in 0..MaxFaults
  <1>0. startupError \subseteq Parts /\ starts \in 0..MaxStarts /\ faults \in 0..MaxFaults
    BY DEF BoundsInv
  <1>1. NoFault \/ Fault => Counted BY <1>0, BoundsAssumption DEF NoFault, Fault
  <1>2. \A part \in Parts : Shown(part) => Told BY <1>0 DEF Shown
  <1>3. Done => Told /\ Counted BY <1>0, <1>1 DEF Done
  <1>4. ASSUME Told, Counted, UNCHANGED starts PROVE BoundsInv' BY <1>0, <1>4 DEF BoundsInv
  <1>5. UNCHANGED startupError => Told BY <1>0
  <1>6. startupError' = {} => Told BY <1>0
  <1>7. CASE Resolve
    <2>1. Counted BY <1>1, <1>7 DEF Resolve
    <2>2. Told BY <1>7 DEF Resolve
    <2>3. starts' = starts + 1 /\ starts < MaxStarts BY <1>7 DEF Resolve
    <2>4. starts' \in 0..MaxStarts BY <1>0, <2>3, BoundsAssumption
    <2> QED BY <2>1, <2>2, <2>4 DEF BoundsInv
  <1> HIDE DEF Told, Counted
  <1>8. CASE MigrateLayout BY <1>1, <1>2, <1>3, <1>4, <1>8 DEF MigrateLayout
  <1>9. CASE MigrateKeymap BY <1>1, <1>2, <1>3, <1>4, <1>9 DEF MigrateKeymap
  <1>10. CASE WriteMigrated BY <1>1, <1>2, <1>3, <1>4, <1>10 DEF WriteMigrated
  <1>11. CASE MigrateIdentity BY <1>1, <1>2, <1>3, <1>4, <1>11 DEF MigrateIdentity
  <1>12. CASE LoadKeymap BY <1>1, <1>2, <1>3, <1>4, <1>12 DEF LoadKeymap
  <1>13. CASE SaveKeymap BY <1>1, <1>2, <1>3, <1>4, <1>13 DEF SaveKeymap
  <1>14. CASE WriteKeymap BY <1>1, <1>2, <1>3, <1>4, <1>14 DEF WriteKeymap
  <1>15. CASE LoadLayout BY <1>1, <1>2, <1>3, <1>4, <1>15 DEF LoadLayout
  <1>16. CASE SaveLayout BY <1>1, <1>2, <1>3, <1>4, <1>16 DEF SaveLayout
  <1>17. CASE LoadIdentity BY <1>1, <1>2, <1>3, <1>4, <1>17 DEF LoadIdentity
  <1>18. CASE UserSaves BY <1>1, <1>4, <1>5, <1>18 DEF UserSaves
  <1>19. CASE Connects BY <1>1, <1>4, <1>5, <1>19 DEF Connects
  <1>20. CASE Ends
    <2>1. Counted BY <1>0, <1>20 DEF Ends, Counted
    <2> QED BY <1>4, <1>6, <1>20, <2>1 DEF Ends
  <1>21. CASE UNCHANGED vars BY <1>0, <1>21 DEF vars, BoundsInv
  <1> QED
    BY <1>7, <1>8, <1>9, <1>10, <1>11, <1>12, <1>13, <1>14, <1>15, <1>16, <1>17, <1>18, <1>19,
       <1>20, <1>21 DEF Next

LEMMA IdentitiesKept ==
  ASSUME IdentitiesInv, PhaseInv, [Next]_vars
  PROVE  IdentitiesInv'
  <1> USE DEF IdentitiesInv, Roots
  <1>1. ASSUME NEW value, value # Bad, root \in Roots, identityFile' = Put(identityFile, root, value)
        PROVE  IdentitiesInv'
    BY <1>1 DEF Put
  <1>2. CASE MigrateIdentity
    BY <1>1, <1>2 DEF MigrateIdentity, PhaseInv, Migrating, Put
  <1>3. CASE Connects BY <1>1, <1>3, IdentitiesAssumption DEF Connects, PhaseInv
  <1>4. CASE UNCHANGED identityFile BY <1>4
  <1>5. CASE Resolve \/ MigrateLayout \/ MigrateKeymap \/ WriteMigrated
    BY <1>4, <1>5 DEF Resolve, MigrateLayout, MigrateKeymap, WriteMigrated, files
  <1>6. CASE LoadKeymap \/ SaveKeymap \/ WriteKeymap
    BY <1>4, <1>6 DEF LoadKeymap, SaveKeymap, WriteKeymap, files
  <1>7. CASE LoadLayout \/ SaveLayout \/ LoadIdentity
    BY <1>4, <1>7 DEF LoadLayout, SaveLayout, LoadIdentity, files
  <1>8. CASE UserSaves \/ Ends BY <1>4, <1>8 DEF UserSaves, Ends, files
  <1>9. CASE UNCHANGED vars BY <1>4, <1>9 DEF vars, files
  <1> QED BY <1>2, <1>3, <1>5, <1>6, <1>7, <1>8, <1>9 DEF Next

-----------------------------------------------------------------------------
(* Layouts.                                                                *)

\* What a layout file is read as.
LEMMA LayoutIsRead ==
  ASSUME LayoutsInv, NEW r \in Roots
  PROVE  /\ LayoutRead(r) \in Actions \cup {Error}
         /\ layoutFile[r] = Absent => LayoutRead(r) = DefaultLayout
         /\ layoutFile[r] = Bad => LayoutRead(r) = Error
         /\ layoutFile[r] \notin {Absent, Bad} => LayoutRead(r) = UnmarshalJSON[layoutFile[r]]
  <1> DEFINE json == layoutFile[r]
  <1>0. Absent # Bad BY LayoutsAssumption
  <1>1. json = Absent => LayoutRead(r) = DefaultLayout BY <1>0 DEF LayoutRead
  <1>2. json = Bad => LayoutRead(r) = Error BY <1>0 DEF LayoutRead
  <1>3. json \notin {Absent, Bad} => LayoutRead(r) = UnmarshalJSON[json] BY DEF LayoutRead
  <1>4. json \in LegacyLayouts \cup Written \cup {Absent} BY DEF LayoutsInv
  <1> HIDE DEF json
  <1>5. json \notin {Absent, Bad} => UnmarshalJSON[json] \in Actions \cup {Error}
    <2>1. json \in Written => json \in JSONs BY WrittenIsJSON DEF Written
    <2> QED BY <1>4, <2>1, LayoutsAssumption, ReadIsValid
  <1>6. LayoutRead(r) \in Actions \cup {Error}
    BY <1>1, <1>2, <1>3, <1>4, <1>5, LayoutsAssumption
  <1> QED BY <1>1, <1>2, <1>3, <1>6 DEF json

\* A saved layout that is plain is in the file and is read as it was.
LEMMA SavedIsRead ==
  ASSUME LayoutsInv, SavedInv, NEW r \in Roots, saved[r] # None, IsPlain(saved[r])
  PROVE  layoutFile[r] \notin {Absent, Bad} /\ LayoutRead(r) = saved[r] /\ LayoutRead(r) # Error
  <1>1. saved[r] \in Edits /\ layoutFile[r] = MarshalJSON[saved[r]] BY DEF SavedInv
  <1>2. saved[r] \in Actions /\ UnmarshalJSON[layoutFile[r]] = saved[r]
    BY <1>1, PlainReadsBack DEF Reread
  <1>3. layoutFile[r] \notin {Absent, Bad} BY <1>1, <1>2, WrittenIsJSON, LayoutsAssumption
  <1>4. saved[r] # Error BY <1>2, ErrorIsNoAction
  <1> QED BY <1>2, <1>3, <1>4, LayoutIsRead

\* The ways a layout file is written: migrated into an empty slot, saved by
\* the start as it was loaded, or saved by the user.
LayoutWritten(a) == layoutFile' = Put(layoutFile, root, MarshalJSON[a])
LayoutStep ==
    \/ UNCHANGED layoutFile
    \/ /\ phase = "migrateLayout" /\ root = "canonical" /\ layoutFile[root] = Absent
       /\ \E a \in Actions : LayoutWritten(a)
    \/ phase = "saveLayout" /\ LayoutWritten(layout)
    \/ phase = "running" /\ \E a \in Edits : LayoutWritten(a)

LEMMA StepOfLayout ==
  ASSUME PhaseInv, LayoutsInv, [Next]_vars
  PROVE  LayoutStep
  <1>1. CASE MigrateLayout
    <2>1. root = "canonical" /\ phase = "migrateLayout" BY <1>1 DEF MigrateLayout, PhaseInv, Migrating
    <2>2. LayoutRead("legacy") \in Actions \cup {Error} BY LayoutIsRead DEF Roots
    <2> QED BY <1>1, <2>1, <2>2 DEF MigrateLayout, Migrates, LayoutStep, LayoutWritten
  <1>2. CASE SaveLayout BY <1>2 DEF SaveLayout, LayoutStep, LayoutWritten
  <1>3. CASE UserSaves BY <1>3 DEF UserSaves, LayoutStep, LayoutWritten
  <1>4. CASE Resolve \/ MigrateKeymap \/ WriteMigrated \/ MigrateIdentity
    BY <1>4 DEF Resolve, MigrateKeymap, WriteMigrated, MigrateIdentity, files, LayoutStep
  <1>5. CASE LoadKeymap \/ SaveKeymap \/ WriteKeymap
    BY <1>5 DEF LoadKeymap, SaveKeymap, WriteKeymap, files, LayoutStep
  <1>6. CASE LoadLayout \/ LoadIdentity \/ Connects \/ Ends
    BY <1>6 DEF LoadLayout, LoadIdentity, Connects, Ends, files, LayoutStep
  <1>7. CASE UNCHANGED vars BY <1>7 DEF vars, files, LayoutStep
  <1> QED BY <1>1, <1>2, <1>3, <1>4, <1>5, <1>6, <1>7 DEF Next

LEMMA PutIs ==
  ASSUME NEW file, file = [r \in Roots |-> file[r]], root \in Roots, NEW value
  PROVE  /\ Put(file, root, value) = [r \in Roots |-> Put(file, root, value)[r]]
         /\ Put(file, root, value)[root] = value
         /\ \A r \in Roots : r # root => Put(file, root, value)[r] = file[r]
  BY DEF Put

LEMMA LayoutsKept ==
  ASSUME PhaseInv, LayoutsInv, LoadedInv, [Next]_vars
  PROVE  LayoutsInv'
  <1>0. LayoutStep BY StepOfLayout
  <1>1. ASSUME NEW a \in Actions, LayoutWritten(a) PROVE LayoutsInv'
    <2>1. MarshalJSON[a] \in Written BY DEF Written
    <2>2. root \in Roots /\ layoutFile = [r \in Roots |-> layoutFile[r]] BY DEF PhaseInv, LayoutsInv
    <2>3. /\ layoutFile' = [r \in Roots |-> layoutFile'[r]]
          /\ layoutFile'[root] \in Written
          /\ \A r \in Roots : r # root => layoutFile'[r] = layoutFile[r]
      BY <1>1, <2>1, <2>2, PutIs DEF LayoutWritten
    <2>4. \A r \in Roots : layoutFile'[r] \in LegacyLayouts \cup Written \cup {Absent}
      BY <2>3 DEF LayoutsInv
    <2>5. layoutFile'["canonical"] \in Written \cup {Absent} BY <2>3 DEF LayoutsInv, Roots
    <2>6. layoutFile' \in [Roots -> LegacyLayouts \cup Written \cup {Absent}] BY <2>3, <2>4
    <2> QED BY <2>5, <2>6 DEF LayoutsInv
  <1>2. CASE UNCHANGED layoutFile BY <1>2 DEF LayoutsInv
  <1> QED BY <1>0, <1>1, <1>2, LayoutsAssumption DEF LayoutStep, LoadedInv

\* The layout in memory was read from the file or is told to be another.
LEMMA LoadedKept ==
  ASSUME PhaseInv, LayoutsInv, LoadedInv, [Next]_vars
  PROVE  LoadedInv'
  <1>1. CASE LoadLayout
    <2>1. root \in Roots /\ root' = root /\ layoutFile' = layoutFile
      BY <1>1 DEF LoadLayout, PhaseInv, files
    <2>2. CASE LayoutRead(root) # Error /\ layout' = LayoutRead(root)
      BY <2>1, <2>2, LayoutIsRead DEF LoadedInv
    <2>3. CASE layout' = DefaultLayout /\ Shown("layout")
      BY <2>3, LayoutsAssumption DEF Shown, LoadedInv
    <2> QED BY <1>1, <2>2, <2>3 DEF LoadLayout
  <1>2. CASE phase' # "saveLayout" BY <1>2 DEF LoadedInv
  <1>3. CASE UNCHANGED vars BY <1>3 DEF vars, files, memory, LoadedInv
  <1>4. CASE UserSaves \/ Connects BY <1>2, <1>4 DEF UserSaves, Connects
  <1>5. CASE Resolve \/ MigrateLayout \/ MigrateKeymap \/ WriteMigrated \/ MigrateIdentity
    BY <1>2, <1>5 DEF Resolve, MigrateLayout, MigrateKeymap, WriteMigrated, MigrateIdentity
  <1>6. CASE LoadKeymap \/ SaveKeymap \/ WriteKeymap
    BY <1>2, <1>6 DEF LoadKeymap, SaveKeymap, WriteKeymap
  <1>7. CASE SaveLayout \/ LoadIdentity \/ Ends BY <1>2, <1>7 DEF SaveLayout, LoadIdentity, Ends
  <1> QED BY <1>1, <1>3, <1>4, <1>5, <1>6, <1>7 DEF Next

\* The saved layout and the file stay together.
LEMMA SavedKept ==
  ASSUME PhaseInv, LayoutsInv, SavedInv, SavedLayoutComesBack, [Next]_vars
  PROVE  SavedInv'
  <1>0. /\ root \in Roots /\ saved = [r \in Roots |-> saved[r]]
        /\ layoutFile = [r \in Roots |-> layoutFile[r]]
        /\ \A r \in Roots : saved[r] # None /\ IsPlain(saved[r]) =>
              saved[r] \in Edits /\ layoutFile[r] = MarshalJSON[saved[r]]
    BY DEF PhaseInv, SavedInv, LayoutsInv
  <1>1. CASE UNCHANGED <<layoutFile, saved>> BY <1>1 DEF SavedInv
  <1>2. CASE saved' = [saved EXCEPT ![root] = None] /\ UNCHANGED layoutFile
    BY <1>0, <1>2 DEF SavedInv
  <1>3. ASSUME NEW edit \in Edits, LayoutWritten(edit), saved' = [saved EXCEPT ![root] = edit]
        PROVE  SavedInv'
    <2>1. layoutFile'[root] = MarshalJSON[edit] /\ \A r \in Roots : r # root => layoutFile'[r] = layoutFile[r]
      BY <1>0, <1>3, PutIs DEF LayoutWritten
    <2>2. saved'[root] = edit /\ \A r \in Roots : r # root => saved'[r] = saved[r]
      BY <1>0, <1>3
    <2>3. saved' = [r \in Roots |-> saved'[r]] BY <1>0, <1>3
    <2> QED BY <1>0, <1>3, <2>1, <2>2, <2>3 DEF SavedInv
  <1>4. ASSUME NEW a, LayoutWritten(a), UNCHANGED saved,
               saved[root] # None /\ IsPlain(saved[root]) => a = saved[root]
        PROVE  SavedInv'
    <2>1. layoutFile'[root] = MarshalJSON[a] /\ \A r \in Roots : r # root => layoutFile'[r] = layoutFile[r]
      BY <1>0, <1>4, PutIs DEF LayoutWritten
    <2> QED BY <1>0, <1>4, <2>1 DEF SavedInv
  <1>5. CASE MigrateLayout
    <2>1. UNCHANGED saved BY <1>5 DEF MigrateLayout
    <2>2. CASE UNCHANGED layoutFile BY <1>1, <2>1, <2>2
    <2>3. CASE layoutFile[root] = Absent /\ \E a \in Actions : LayoutWritten(a)
      <3>1. ~(saved[root] # None /\ IsPlain(saved[root])) BY <1>0, <2>3, SavedIsRead
      <3> QED BY <1>4, <2>1, <2>3, <3>1
    <2>4. phase = "migrateLayout" BY <1>5 DEF MigrateLayout
    <2> QED BY <2>2, <2>3, <2>4, StepOfLayout DEF LayoutStep
  <1>6. CASE SaveLayout
    <2>1. UNCHANGED saved /\ phase = "saveLayout" BY <1>6 DEF SaveLayout
    <2>2. saved[root] # None /\ IsPlain(saved[root]) => layout = saved[root]
      BY <2>1 DEF SavedLayoutComesBack
    <2>3. LayoutWritten(layout) \/ UNCHANGED layoutFile BY <1>6 DEF SaveLayout, LayoutWritten
    <2> QED BY <1>1, <1>4, <2>1, <2>2, <2>3
  <1>7. CASE UserSaves BY <1>1, <1>3, <1>7 DEF UserSaves, LayoutWritten
  <1>8. CASE LoadLayout BY <1>1, <1>2, <1>8 DEF LoadLayout, files
  <1>9. CASE Resolve \/ MigrateKeymap \/ WriteMigrated \/ MigrateIdentity
    BY <1>1, <1>9 DEF Resolve, MigrateKeymap, WriteMigrated, MigrateIdentity, files
  <1>10. CASE LoadKeymap \/ SaveKeymap \/ WriteKeymap
    BY <1>1, <1>10 DEF LoadKeymap, SaveKeymap, WriteKeymap, files
  <1>11. CASE LoadIdentity \/ Connects \/ Ends BY <1>1, <1>11 DEF LoadIdentity, Connects, Ends, files
  <1>12. CASE UNCHANGED vars BY <1>1, <1>12 DEF vars, files
  <1> QED BY <1>5, <1>6, <1>7, <1>8, <1>9, <1>10, <1>11, <1>12 DEF Next

\* A start types with what was saved.
LEMMA ComesBackKept ==
  ASSUME PhaseInv, LayoutsInv, SavedInv, SavedLayoutComesBack, [Next]_vars
  PROVE  SavedLayoutComesBack'
  <1>1. CASE LoadLayout
    <2>1. root \in Roots /\ root' = root BY <1>1 DEF LoadLayout, PhaseInv
    <2>2. CASE layout' = LayoutRead(root) /\ UNCHANGED saved
      BY <2>1, <2>2, SavedIsRead DEF SavedLayoutComesBack
    <2>3. CASE saved' = [saved EXCEPT ![root] = None]
      <3>1. saved'[root] = None BY <2>1, <2>3 DEF SavedInv
      <3> QED BY <2>1, <3>1 DEF SavedLayoutComesBack
    <2> QED BY <1>1, <2>2, <2>3 DEF LoadLayout
  <1>2. CASE SaveLayout
    BY <1>2 DEF SaveLayout, memory, SavedLayoutComesBack
  <1>3. CASE phase' \notin {"saveLayout", "loadIdentity"} BY <1>3 DEF SavedLayoutComesBack
  <1>4. CASE UNCHANGED vars BY <1>4 DEF vars, memory, SavedLayoutComesBack
  <1>5. CASE UserSaves \/ Connects BY <1>3, <1>5 DEF UserSaves, Connects
  <1>6. CASE Resolve \/ MigrateLayout \/ MigrateKeymap \/ WriteMigrated \/ MigrateIdentity
    BY <1>3, <1>6 DEF Resolve, MigrateLayout, MigrateKeymap, WriteMigrated, MigrateIdentity
  <1>7. CASE LoadKeymap \/ SaveKeymap \/ WriteKeymap
    BY <1>3, <1>7 DEF LoadKeymap, SaveKeymap, WriteKeymap
  <1>8. CASE LoadIdentity \/ Ends BY <1>3, <1>8 DEF LoadIdentity, Ends
  <1> QED BY <1>1, <1>2, <1>4, <1>5, <1>6, <1>7, <1>8 DEF Next

-----------------------------------------------------------------------------
(* Keymaps.                                                                *)

LEMMA KeymapIsRead ==
  ASSUME KeymapsInv, NEW r \in Roots, NEW k \in KeymapsRead(r), k # Error
  PROVE  ValidKeymap(k)
  <1> DEFINE file == keymapFile[r]
  <1>0. Absent # Bad BY LayoutsAssumption
  <1>1. file = Absent => KeymapsRead(r) = {DefaultKeymap} BY <1>0 DEF KeymapsRead
  <1>2. file = Bad => KeymapsRead(r) = {Error} BY <1>0 DEF KeymapsRead
  <1>3. file \notin {Absent, Bad} => KeymapsRead(r) = ParseKeymap(file) BY DEF KeymapsRead
  <1>4. file \notin {Absent, Bad} => \A e \in file.layers : ParsedEntry(e) BY DEF KeymapsInv
  <1> HIDE DEF file
  <1> QED BY <1>1, <1>2, <1>3, <1>4, ReadKeymap, KeymapsAssumption

\* A written keymap is read as the one it was written from.
LEMMA SavedKeymapIsRead ==
  ASSUME NEW r \in Roots, NEW k, ValidKeymap(k), PlainKeymap(k), keymapFile[r] = MarshalKeymap(k)
  PROVE  KeymapsRead(r) = {k}
  <1>1. MarshalKeymap(k) \notin {Absent, Bad} BY WrittenKeymap, KeymapsAssumption
  <1>2. KeymapsRead(r) = ParseKeymap(keymapFile[r]) BY <1>1 DEF KeymapsRead
  <1> QED BY <1>2, WrittenKeymapIsRead

\* What a keymap file may hold after a write to it.
Kept(file) ==
    \/ file \in {Absent, Bad}
    \/ file \in KeymapFiles /\ \A e \in file.layers : ParsedEntry(e)

\* The part of the invariant that is about the files.
KeymapFilesInv ==
    /\ keymapFile = [r \in Roots |-> keymapFile[r]]
    /\ \A r \in Roots :
          keymapFile[r] \in {Absent, Bad} \/ \A e \in keymapFile[r].layers : ParsedEntry(e)
    /\ keymapFile["canonical"] \in {Absent, Bad} \cup KeymapFiles

LEMMA KeymapFilesKept ==
  ASSUME PhaseInv, KeymapsInv, [Next]_vars
  PROVE  KeymapFilesInv'
  <1>0. KeymapFilesInv /\ root \in Roots BY DEF KeymapsInv, KeymapFilesInv, PhaseInv
  <1>1. CASE UNCHANGED keymapFile BY <1>0, <1>1 DEF KeymapFilesInv
  <1>2. ASSUME NEW file, Kept(file), keymapFile' = Put(keymapFile, root, file)
        PROVE  KeymapFilesInv'
    <2>1. /\ keymapFile' = [r \in Roots |-> keymapFile'[r]]
          /\ keymapFile'[root] = file
          /\ \A r \in Roots : r # root => keymapFile'[r] = keymapFile[r]
      BY <1>0, <1>2, PutIs DEF KeymapFilesInv
    <2>2. ASSUME NEW r \in Roots
          PROVE  keymapFile'[r] \in {Absent, Bad} \/ \A e \in keymapFile'[r].layers : ParsedEntry(e)
      <3>1. CASE r = root BY <1>2, <2>1, <3>1 DEF Kept
      <3>2. CASE r # root BY <1>0, <2>1, <3>2 DEF KeymapFilesInv
      <3> QED BY <3>1, <3>2
    <2>3. keymapFile'["canonical"] \in {Absent, Bad} \cup KeymapFiles
      <3>1. CASE root = "canonical" BY <1>2, <2>1, <3>1 DEF Kept
      <3>2. CASE root # "canonical" BY <1>0, <2>1, <3>2 DEF KeymapFilesInv, Roots
      <3> QED BY <3>1, <3>2
    <2> QED BY <2>1, <2>2, <2>3 DEF KeymapFilesInv
  <1>3. Kept(Bad) BY DEF Kept
  <1>4. ASSUME phase \notin KeymapUnread PROVE Kept(MarshalKeymap(keymap))
    <2>1. ValidKeymap(keymap) BY <1>4 DEF KeymapsInv
    <2> QED BY <2>1, WrittenKeymap DEF Kept
  <1>5. phase \in Migrating => root = "canonical" BY DEF PhaseInv
  <1>6. CASE MigrateKeymap BY <1>1, <1>2, <1>3, <1>5, <1>6 DEF MigrateKeymap, Migrating
  <1>7. CASE WriteMigrated
    BY <1>1, <1>2, <1>4, <1>5, <1>7 DEF WriteMigrated, Migrating, KeymapUnread
  <1>8. CASE SaveKeymap BY <1>1, <1>2, <1>3, <1>8 DEF SaveKeymap
  <1>9. CASE WriteKeymap BY <1>1, <1>2, <1>4, <1>9 DEF WriteKeymap, KeymapUnread
  <1>10. CASE Resolve \/ MigrateLayout \/ MigrateIdentity \/ LoadKeymap
    BY <1>1, <1>10 DEF Resolve, MigrateLayout, MigrateIdentity, LoadKeymap, files
  <1>11. CASE LoadLayout \/ SaveLayout \/ LoadIdentity
    BY <1>1, <1>11 DEF LoadLayout, SaveLayout, LoadIdentity, files
  <1>12. CASE UserSaves \/ Connects \/ Ends BY <1>1, <1>12 DEF UserSaves, Connects, Ends, files
  <1>13. CASE UNCHANGED vars BY <1>1, <1>13 DEF vars, files
  <1> QED BY <1>6, <1>7, <1>8, <1>9, <1>10, <1>11, <1>12, <1>13 DEF Next

\* The keymap in memory is valid once it is read, and in the file once saved.
KeymapHeld ==
    /\ phase \notin KeymapUnread => ValidKeymap(keymap)
    /\ phase \in KeymapSaved /\ "keymap" \notin startupError =>
          keymapFile[root] = MarshalKeymap(keymap)

LEMMA KeymapHeldKept ==
  ASSUME PhaseInv, KeymapsInv, [Next]_vars
  PROVE  KeymapHeld'
  <1> USE DEF KeymapHeld, KeymapSaved, KeymapUnread
  <1>0. KeymapHeld /\ root \in Roots /\ keymapFile = [r \in Roots |-> keymapFile[r]]
    BY DEF KeymapsInv, PhaseInv
  <1>1. CASE phase' \in KeymapUnread BY <1>1
  <1>2. ASSUME phase' \in {"writeMigrated", "saveKeymap", "writeKeymap"}, ValidKeymap(keymap')
        PROVE  KeymapHeld'
    BY <1>2
  <1>3. ASSUME phase' = "loadLayout", ValidKeymap(keymap'), "keymap" \in startupError'
        PROVE  KeymapHeld'
    BY <1>3
  <1>4. ASSUME phase \in KeymapSaved, phase' \in KeymapSaved,
               UNCHANGED <<keymap, keymapFile, root>>, startupError \subseteq startupError'
        PROVE  KeymapHeld'
    BY <1>0, <1>4
  <1>5. CASE MigrateKeymap
    BY <1>1, <1>2, <1>5, KeymapIsRead DEF MigrateKeymap, Roots
  <1>6. CASE LoadKeymap
    <2>1. CASE keymap' \in KeymapsRead(root) \ {Error} /\ phase' = "saveKeymap"
      BY <1>0, <1>2, <2>1, KeymapIsRead
    <2>2. CASE keymap' = DefaultKeymap /\ phase' = "loadLayout" /\ Shown("keymap")
      BY <1>3, <2>2, KeymapsAssumption DEF Shown
    <2> QED BY <1>6, <2>1, <2>2 DEF LoadKeymap
  <1>7. CASE SaveKeymap
    <2>1. ValidKeymap(keymap') BY <1>0, <1>7 DEF SaveKeymap, memory
    <2> QED BY <1>2, <1>3, <1>7, <2>1 DEF SaveKeymap, Shown
  <1>8. CASE WriteKeymap
    <2>1. ValidKeymap(keymap') /\ keymap' = keymap /\ phase' = "loadLayout" /\ root' = root
      BY <1>0, <1>8 DEF WriteKeymap, memory
    <2>2. CASE keymapFile' = Put(keymapFile, root, MarshalKeymap(keymap))
      <3>1. keymapFile'[root] = MarshalKeymap(keymap) BY <1>0, <2>2, PutIs
      <3> QED BY <2>1, <3>1
    <2>3. CASE Shown("keymap") BY <1>3, <2>1, <2>3 DEF Shown
    <2> QED BY <1>8, <2>2, <2>3 DEF WriteKeymap
  <1>9. CASE Resolve \/ MigrateLayout \/ WriteMigrated \/ MigrateIdentity \/ Ends
    BY <1>1, <1>9 DEF Resolve, MigrateLayout, WriteMigrated, MigrateIdentity, Ends
  <1>10. CASE LoadLayout \/ SaveLayout
    BY <1>4, <1>10 DEF LoadLayout, SaveLayout, files, memory, Done, Shown
  <1>11. CASE LoadIdentity BY <1>4, <1>11 DEF LoadIdentity, files, Done, Shown
  <1>12. CASE UserSaves \/ Connects BY <1>4, <1>12 DEF UserSaves, Connects
  <1>13. CASE UNCHANGED vars BY <1>0, <1>13 DEF vars, files, memory
  <1> QED BY <1>5, <1>6, <1>7, <1>8, <1>9, <1>10, <1>11, <1>12, <1>13 DEF Next

-----------------------------------------------------------------------------
(* The invariant and what it says.                                         *)

LEMMA StartupInit ==
  ASSUME Init
  PROVE  StartupInv
  <1>1. PhaseInv BY DEF Init, PhaseInv, KeymapUnread, Migrating, Roots
  <1>2. BoundsInv
    <2>1. startupError = {} /\ starts = 0 /\ faults = 0 BY DEF Init
    <2> QED BY <2>1, BoundsAssumption DEF BoundsInv
  <1>3. LayoutsInv BY DEF Init, LayoutsInv
  <1>4. LoadedInv /\ SavedLayoutComesBack
    <2>1. phase = "off" BY DEF Init
    <2> QED BY <2>1 DEF LoadedInv, SavedLayoutComesBack
  <1>5. SavedInv BY DEF Init, SavedInv
  <1>6. KeymapsInv
    <2>1. phase = "off" BY DEF Init
    <2>2. keymapFile \in [Roots -> LegacyKeymaps] /\ keymapFile["canonical"] = Absent BY DEF Init
    <2>3. \A r \in Roots : keymapFile[r] \in {Absent, Bad}
                              \/ \A e \in keymapFile[r].layers : ParsedEntry(e)
      BY <2>2, KeymapsAssumption
    <2> QED BY <2>1, <2>2, <2>3 DEF KeymapsInv, KeymapUnread, KeymapSaved
  <1>7. IdentitiesInv
    <2>1. Absent # Bad BY LayoutsAssumption
    <2> QED BY <2>1 DEF Init, IdentitiesInv
  <1> QED BY <1>1, <1>2, <1>3, <1>4, <1>5, <1>6, <1>7 DEF StartupInv

LEMMA StartupStep ==
  ASSUME StartupInv, [Next]_vars
  PROVE  StartupInv'
  <1> USE DEF StartupInv
  <1>1. PhaseInv' /\ BoundsInv' BY PhaseKept, BoundsKept
  <1>2. LayoutsInv' /\ LoadedInv' BY LayoutsKept, LoadedKept
  <1>3. SavedInv' /\ SavedLayoutComesBack' BY SavedKept, ComesBackKept
  <1>4. KeymapsInv'
    <2>1. KeymapFilesInv' /\ KeymapHeld' BY KeymapFilesKept, KeymapHeldKept
    <2> QED BY <2>1 DEF KeymapsInv, KeymapFilesInv, KeymapHeld
  <1>5. IdentitiesInv' BY IdentitiesKept
  <1> QED BY <1>1, <1>2, <1>3, <1>4, <1>5

(* The invariant holds of every behaviour.                                 *)
THEOREM StartupInvariant == Spec => []StartupInv
  <1>1. Init => StartupInv BY StartupInit
  <1>2. StartupInv /\ [Next]_vars => StartupInv' BY StartupStep
  <1> QED BY <1>1, <1>2, PTL DEF Spec

(* Nothing that could not be read comes into the new workspace, but for a  *)
(* keymap whose writing was cut off (migrate.go, SaveKeymap).              *)
THEOREM FilesTypeCorrect == Spec => []TypeOK
  <1>1. StartupInv => TypeOK
    <2> SUFFICES ASSUME StartupInv PROVE TypeOK OBVIOUS
    <2>1. layoutFile["canonical"] \in {Absent} \cup JSONs
      BY WrittenIsJSON DEF StartupInv, LayoutsInv, Written
    <2> QED BY <2>1 DEF StartupInv, KeymapsInv, IdentitiesInv, PhaseInv, BoundsInv, TypeOK
  <1> QED BY <1>1, StartupInvariant, PTL

(* What the user saved is what the next start types with, after any        *)
(* crashes and failed steps that the window did not tell of (run,          *)
(* LoadLayout, SaveLayout).                                                *)
THEOREM SavedLayoutComesBackAlways == Spec => []SavedLayoutComesBack
  <1>1. StartupInv => SavedLayoutComesBack BY DEF StartupInv
  <1> QED BY <1>1, StartupInvariant, PTL

(* A start without an error about the keymap leaves it in a form that is   *)
(* read in one way only, the way it is in memory (LoadKeymap, SaveKeymap). *)
THEOREM KeymapReadsBackAlways == Spec => []KeymapReadsBack
  <1>1. StartupInv => KeymapReadsBack
    <2> SUFFICES ASSUME StartupInv, phase = "running", "keymap" \notin startupError,
                        PlainKeymap(keymap)
                 PROVE  \A read \in KeymapsRead(root) :
                           \A layer \in 0..3, mask \in SUBSET ButtonIndices :
                              GetActionByMask(read, layer, mask) = GetActionByMask(keymap, layer, mask)
      BY DEF KeymapReadsBack, PlainKeymap
    <2>1. root \in Roots BY DEF StartupInv, PhaseInv
    <2>2. ValidKeymap(keymap) /\ keymapFile[root] = MarshalKeymap(keymap)
      BY DEF StartupInv, KeymapsInv, KeymapUnread, KeymapSaved
    <2>3. KeymapsRead(root) = {keymap} BY <2>1, <2>2, SavedKeymapIsRead
    <2> QED BY <2>3
  <1> QED BY <1>1, StartupInvariant, PTL

\* A step in the new workspace writes no keymap or identity of the old one.
LEMMA LegacyRests ==
  ASSUME PhaseInv, KeymapsInv, IdentitiesInv, [Next]_vars, root = "canonical", phase # "off"
  PROVE  keymapFile'["legacy"] = keymapFile["legacy"] /\ identityFile'["legacy"] = identityFile["legacy"]
  <1>1. ASSUME NEW value, keymapFile' = Put(keymapFile, "canonical", value)
        PROVE  keymapFile'["legacy"] = keymapFile["legacy"]
    BY <1>1 DEF Put, KeymapsInv, Roots
  <1>2. ASSUME NEW value, identityFile' = Put(identityFile, "canonical", value)
        PROVE  identityFile'["legacy"] = identityFile["legacy"]
    BY <1>2 DEF Put, IdentitiesInv, Roots
  <1>3. CASE MigrateKeymap \/ WriteMigrated BY <1>1, <1>3 DEF MigrateKeymap, WriteMigrated
  <1>4. CASE SaveKeymap \/ WriteKeymap BY <1>1, <1>4 DEF SaveKeymap, WriteKeymap
  <1>5. CASE MigrateIdentity \/ Connects BY <1>2, <1>5 DEF MigrateIdentity, Connects
  <1>6. CASE Resolve \/ MigrateLayout \/ LoadKeymap BY <1>6 DEF Resolve, MigrateLayout, LoadKeymap, files
  <1>7. CASE LoadLayout \/ SaveLayout \/ LoadIdentity
    BY <1>7 DEF LoadLayout, SaveLayout, LoadIdentity, files
  <1>8. CASE UserSaves \/ Ends BY <1>8 DEF UserSaves, Ends, files
  <1>9. CASE UNCHANGED vars BY <1>9 DEF vars, files
  <1> QED BY <1>3, <1>4, <1>5, <1>6, <1>7, <1>8, <1>9 DEF Next

\* A layout changes as FilesAreKept says.
LEMMA LayoutChange ==
  ASSUME PhaseInv, LayoutsInv, LoadedInv, [Next]_vars,
         NEW r \in Roots, layoutFile'[r] # layoutFile[r]
  PROVE  /\ r = root
         /\ \/ phase = "running" \/ layoutFile[r] = Absent \/ "layout" \in startupError
            \/ layoutFile'[r] = MarshalJSON[UnmarshalJSON[layoutFile[r]]]
  <1>1. LayoutStep BY StepOfLayout
  <1>2. root \in Roots /\ layoutFile = [q \in Roots |-> layoutFile[q]] BY DEF PhaseInv, LayoutsInv
  <1>3. ASSUME NEW a, LayoutWritten(a) PROVE r = root /\ layoutFile'[r] = MarshalJSON[a]
    BY <1>2, <1>3, PutIs DEF LayoutWritten
  <1>4. CASE phase = "saveLayout" /\ LayoutWritten(layout) BY <1>3, <1>4 DEF LoadedInv
  <1> QED BY <1>1, <1>3, <1>4 DEF LayoutStep

(* No step replaces a layout that could be read, and none in the new       *)
(* workspace touches a keymap or an identity of the old one                *)
(* (MigrateValidated, run).                                                *)
THEOREM FilesAreKeptAlways == Spec => FilesAreKept
  <1>1. StartupInv /\ [Next]_vars =>
          [/\ \A r \in Roots : layoutFile'[r] # layoutFile[r] =>
                /\ r = root
                /\ \/ phase = "running" \/ layoutFile[r] = Absent \/ "layout" \in startupError
                   \/ layoutFile'[r] = MarshalJSON[UnmarshalJSON[layoutFile[r]]]
           /\ root = "canonical" /\ phase # "off" =>
                /\ keymapFile'["legacy"] = keymapFile["legacy"]
                /\ identityFile'["legacy"] = identityFile["legacy"]]_vars
    BY LayoutChange, LegacyRests DEF StartupInv
  <1> QED BY <1>1, StartupInvariant, PTL DEF Spec, FilesAreKept
=============================================================================
