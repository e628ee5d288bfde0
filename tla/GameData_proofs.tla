---------------------------- MODULE GameData_proofs ----------------------------
(***************************************************************************)
(* Proofs that a load of the game data which succeeds leaves the plugin no *)
(* reference that leads astray, for every set of modules, references and   *)
(* files.                                                                  *)
(***************************************************************************)
EXTENDS GameData, TLAPS

LEMMA ReferencesInit == GameDataInit => ReferencesInv
  BY GameDataAssumption
  DEF GameDataInit, ReferencesInv, GameDataTypeOK, StrayIsReported, FunctionsSet,
      GivenIsSet, AddressesRead, RefusedWithoutFile, Unread, Phases, Places, Refs

(* An entry of the file is what its loop expects. *)
LEMMA EntryTypes ==
  ASSUME GameDataTypeOK, file # NoFile
  PROVE  /\ \A i \in DOMAIN file.signatures : file.signatures[i] \in SignatureEntries
         /\ \A i \in DOMAIN file.addresses : file.addresses[i] \in AddressEntries
<1>1. /\ file.signatures \in Seq(SignatureEntries)
      /\ file.addresses \in Seq(AddressEntries)
  BY GameDataAssumption DEF GameDataTypeOK
<1> QED  BY <1>1

(* What is assigned to a reference is a place, and a module of the table   *)
(* only when the address lies there.                                       *)
LEMMA ResolvedPlace ==
  ASSUME GameDataTypeOK, NEW e \in AddressEntries, Resolvable(e)
  PROVE  Target(e) \in DataRefs /\ Resolved(e) \in Places
  BY GameDataAssumption
  DEF GameDataTypeOK, AddressEntries, Resolvable, Resolved, Plus, Places, Refs

(* The types, where a reference leads, and what is left without a file.    *)
LEMMA PlacesKept ==
  ASSUME ReferencesInv, [GameDataNext]_vars
  PROVE  GameDataTypeOK' /\ StrayIsReported' /\ FunctionsSet' /\ RefusedWithoutFile'
<1> USE GameDataAssumption DEF ReferencesInv, Unread
<1>1. CASE ReadFile
  <2>1. CASE file = NoFile
    BY <1>1, <2>1 DEF ReadFile, GameDataTypeOK, StrayIsReported, FunctionsSet,
                      RefusedWithoutFile, Phases
  <2>2. CASE file # NoFile
    <3>1. ref' = ref /\ ok /\ ok'
      BY <1>1, <2>2 DEF ReadFile, Unread
    <3> QED
      BY <1>1, <2>2, <3>1 DEF ReadFile, GameDataTypeOK, StrayIsReported,
                              FunctionsSet, RefusedWithoutFile, Phases
  <2> QED  BY <2>1, <2>2
<1>2. CASE HandleSignature
  <2>1. PICK e \in SignatureEntries :
          phase = "signatures" /\ (ScanSignature(e) \/ ScanCrashes(e))
    BY <1>2, EntryTypes DEF HandleSignature, RefusedWithoutFile
  <2>2. CASE ScanSignature(e)
    <3>1. ok' \in BOOLEAN /\ (ok' => ok)
      BY <2>2 DEF ScanSignature
    <3>2. signatures' \in [Names -> Modules \cup {Nowhere}]
      BY <2>2 DEF ScanSignature, Stored, Searched, SignatureEntries, GameDataTypeOK
    <3>3. next' \in Nat \ {0}
      BY <2>2 DEF ScanSignature, GameDataTypeOK
    <3> QED
      BY <2>1, <2>2, <3>1, <3>2, <3>3
      DEF ScanSignature, GameDataTypeOK, StrayIsReported, FunctionsSet, RefusedWithoutFile
  <2>3. CASE ScanCrashes(e)
    BY <2>1, <2>3 DEF ScanCrashes, GameDataTypeOK, StrayIsReported, FunctionsSet,
                      RefusedWithoutFile, Phases
  <2> QED  BY <2>1, <2>2, <2>3
<1>3. CASE SignaturesEnd
  BY <1>3 DEF SignaturesEnd, GameDataTypeOK, StrayIsReported, FunctionsSet,
              RefusedWithoutFile, Phases
<1>4. CASE InitFunctions
  <2>1. GameDataTypeOK'
    <3>1. \A f \in Expected : f \in Refs /\ f.name \in Names
      BY DEF Expected, Refs
    <3> QED  BY <1>4, <3>1 DEF InitFunctions, GameDataTypeOK, Phases, Places, HasSignature
  <2>2. \A d \in DataRefs : ref'[d] = ref[d]
    BY <1>4 DEF InitFunctions, Expected, Refs
  <2>3. ok' => \A f \in Expected : ref'[f] \in Modules
    BY <1>4 DEF InitFunctions, AllFound, HasSignature, Expected, Refs, GameDataTypeOK
  <2> QED
    BY <1>4, <2>1, <2>2, <2>3
    DEF InitFunctions, StrayIsReported, FunctionsSet, RefusedWithoutFile,
        GameDataTypeOK, Expected, Skips
<1>5. CASE HandleAddress
  <2>1. PICK e \in AddressEntries :
          /\ phase = "addresses"
          /\ ResolveAddress(e) \/ ReportAddress(e) \/ ReportCrashes(e) \/ PassAddress(e)
    BY <1>5, EntryTypes DEF HandleAddress, RefusedWithoutFile
  <2>2. CASE ResolveAddress(e)
    <3>1. Target(e) \in DataRefs /\ Resolved(e) \in Places
      BY <2>2, ResolvedPlace DEF ResolveAddress
    <3>2. ok' \in BOOLEAN /\ (ok' => ok /\ Resolved(e) = e.library)
      BY <2>2 DEF ResolveAddress, IsValidAddress
    <3>3. GameDataTypeOK'
      BY <2>2, <3>1, <3>2 DEF ResolveAddress, GameDataTypeOK, Refs
    <3>4. StrayIsReported'
      BY <2>2, <3>1, <3>2 DEF ResolveAddress, GameDataTypeOK, StrayIsReported, Target, Refs
    <3>5. FunctionsSet'
      <4>1. Expected' = Expected /\ Expected \subseteq FuncRefs
        BY <2>2 DEF ResolveAddress, Expected, Skips
      <4>2. \A f \in FuncRefs : ref'[f] = ref[f]
        BY <2>2, <3>1 DEF ResolveAddress, GameDataTypeOK, Refs
      <4> QED
        BY <2>1, <2>2, <3>2, <4>1, <4>2 DEF ResolveAddress, FunctionsSet
    <3>6. RefusedWithoutFile'
      BY <2>1, <2>2 DEF ResolveAddress, RefusedWithoutFile
    <3> QED
      BY <3>3, <3>4, <3>5, <3>6
  <2>3. CASE ReportAddress(e) \/ ReportCrashes(e) \/ PassAddress(e)
    <3>1. Expected' = Expected
      BY <2>3 DEF ReportAddress, ReportCrashes, PassAddress, Expected, Skips
    <3>2. GameDataTypeOK'
      <4>1. CASE ReportAddress(e)
        <5>1. ok' \in BOOLEAN
          BY <4>1 DEF ReportAddress
        <5>2. UNCHANGED <<file, dedicated, phase, signatures, ref>> /\ next' \in Nat \ {0}
          BY <4>1 DEF ReportAddress, GameDataTypeOK
        <5> QED  BY <5>1, <5>2 DEF GameDataTypeOK
      <4>2. CASE PassAddress(e)
        BY <4>2 DEF PassAddress, GameDataTypeOK
      <4>3. CASE ReportCrashes(e)
        BY <4>3 DEF ReportCrashes, GameDataTypeOK, Phases
      <4> QED  BY <2>3, <4>1, <4>2, <4>3
    <3>3. (ok' => ok) /\ ref' = ref /\ phase' \in {"addresses", "crashed"} /\ file # NoFile
      BY <2>1, <2>3 DEF ReportAddress, ReportCrashes, PassAddress, RefusedWithoutFile
    <3> QED
      BY <2>1, <2>3, <3>1, <3>2, <3>3
      DEF ReportAddress, ReportCrashes, PassAddress,
          StrayIsReported, FunctionsSet, RefusedWithoutFile
  <2> QED  BY <2>1, <2>2, <2>3
<1>6. CASE AddressesEnd
  BY <1>6 DEF AddressesEnd, GameDataTypeOK, StrayIsReported, FunctionsSet,
              RefusedWithoutFile, Phases, Expected, Skips
<1>7. CASE Ended \/ UNCHANGED vars
  BY <1>7 DEF Ended, vars, GameDataTypeOK, StrayIsReported, FunctionsSet,
              RefusedWithoutFile, Expected, Skips
<1> QED
  BY <1>1, <1>2, <1>3, <1>4, <1>5, <1>6, <1>7 DEF GameDataNext

(* The third loop: what an entry gives is assigned, and an error clears Ok.*)
LEMMA EntryGiven ==
  ASSUME ReferencesInv, HandleAddress
  PROVE  GivenIsSet'
<1> SUFFICES ASSUME ok', NEW d \in DataRefs, NEW i \in 1 .. AddressesRead',
                    Gives(file.addresses[i], d)'
             PROVE  ref'[d] # Nowhere
  BY DEF GivenIsSet
<1> DEFINE e == file.addresses[next]
<1>1. /\ phase = "addresses" /\ next \in DOMAIN file.addresses /\ next \in Nat
      /\ ResolveAddress(e) \/ ReportAddress(e) \/ ReportCrashes(e) \/ PassAddress(e)
  BY DEF HandleAddress, ReferencesInv, GameDataTypeOK
<1>2. AddressesRead = next - 1
  BY <1>1 DEF AddressesRead
<1>3. ResolveAddress(e) \/ PassAddress(e)
  <2>1. ~ReportAddress(e)
    BY DEF ReportAddress
  <2>2. ~ReportCrashes(e)
    <3>1. AddressesRead' # 0
      OBVIOUS
    <3>2. phase' # "crashed"
      BY <3>1 DEF AddressesRead
    <3> QED
      BY <3>2 DEF ReportCrashes
  <2> QED
    BY <1>1, <2>1, <2>2
<1>4. ok /\ next' = next + 1 /\ UNCHANGED <<file, dedicated, phase>>
  BY <1>3 DEF ResolveAddress, PassAddress
<1>5. i = next \/ i \in 1 .. next - 1
  <2>1. AddressesRead' = next
    BY <1>1, <1>4 DEF AddressesRead
  <2> QED
    BY <1>1, <2>1
<1>6. Gives(file.addresses[i], d)
  BY <1>4 DEF Gives, Absent
<1>7. i # next => ref[d] # Nowhere
  BY <1>2, <1>4, <1>5, <1>6 DEF ReferencesInv, GivenIsSet
<1>8. CASE ResolveAddress(e)
  <2>1. Resolved(e) = e.library /\ e.library \in Modules /\ e.library # Nowhere
    BY <1>8, GameDataAssumption DEF ResolveAddress, Resolvable, IsValidAddress
  <2>2. ref \in [Refs -> Places] /\ d \in Refs
    BY DEF ReferencesInv, GameDataTypeOK, Refs
  <2>3. ref'[d] = IF d = Target(e) THEN e.library ELSE ref[d]
    BY <1>8, <2>1, <2>2 DEF ResolveAddress
  <2>4. i = next => d = Target(e)
    BY <1>6 DEF Gives
  <2> QED
    BY <1>7, <2>1, <2>3, <2>4
<1>9. CASE PassAddress(e)
  <2>1. ref' = ref /\ Passed(e)
    BY <1>9 DEF PassAddress
  <2>2. i # next
    BY <1>6, <2>1 DEF Passed, Gives, Target, Skips, Absent
  <2> QED
    BY <1>7, <2>1, <2>2
<1> QED
  BY <1>3, <1>8, <1>9

LEMMA GivenKept ==
  ASSUME ReferencesInv, [GameDataNext]_vars
  PROVE  GivenIsSet' /\ Unread'
<1>1. CASE ReadFile \/ HandleSignature \/ SignaturesEnd
  <2>1. /\ phase' \in {"signatures", "functions", "crashed", "done"}
        /\ phase' = "functions" => next' = 1
        /\ phase' = "done" => file' = NoFile
    BY <1>1 DEF ReadFile, HandleSignature, ScanSignature, ScanCrashes, SignaturesEnd
  <2>2. AddressesRead' = 0
    BY <2>1 DEF AddressesRead
  <2> QED
    BY <2>1, <2>2 DEF GivenIsSet, Unread
<1>2. CASE InitFunctions
  <2>1. phase' = "addresses" /\ next' = 1
    BY <1>2 DEF InitFunctions, ReferencesInv, Unread
  <2>2. AddressesRead' = 0
    BY <2>1 DEF AddressesRead
  <2> QED
    BY <2>1, <2>2 DEF GivenIsSet, Unread
<1>3. CASE HandleAddress
  <2>1. phase' \in {"addresses", "crashed"}
    BY <1>3 DEF HandleAddress, ResolveAddress, ReportAddress, ReportCrashes, PassAddress
  <2> QED
    BY <1>3, <2>1, EntryGiven DEF Unread
<1>4. CASE AddressesEnd
  <2>1. /\ phase = "addresses" /\ phase' = "done" /\ next = Len(file.addresses) + 1
        /\ file # NoFile
        /\ UNCHANGED <<file, dedicated, next, signatures, ref, ok>>
    BY <1>4 DEF AddressesEnd, ReferencesInv, RefusedWithoutFile
  <2>2. Len(file.addresses) \in Nat
    BY <2>1, GameDataAssumption DEF ReferencesInv, GameDataTypeOK
  <2>3. AddressesRead' = AddressesRead
    BY <2>1, <2>2 DEF AddressesRead
  <2> QED
    BY <2>1, <2>3 DEF ReferencesInv, GivenIsSet, Unread, Gives, Absent
<1>5. CASE Ended \/ UNCHANGED vars
  BY <1>5 DEF Ended, vars, ReferencesInv, GivenIsSet, AddressesRead, Unread, Gives, Absent
<1> QED
  BY <1>1, <1>2, <1>3, <1>4, <1>5 DEF GameDataNext

LEMMA ReferencesStep ==
  ASSUME ReferencesInv, [GameDataNext]_vars
  PROVE  ReferencesInv'
  BY PlacesKept, GivenKept DEF ReferencesInv

-------------------------------------------------------------------------------
(* A clean file: what its loops meet, and what they leave.                 *)
LEMMA GameDataInvInit == GameDataInit => GameDataInv
<1> SUFFICES ASSUME GameDataInit PROVE CleanSoFar
  BY ReferencesInit DEF GameDataInv
<1>1. /\ ok /\ phase = "read" /\ next = 1 /\ SignaturesRead = 0
      /\ \A n \in Names : signatures[n] = Nowhere
  BY DEF GameDataInit, SignaturesRead
<1> QED  BY <1>1 DEF CleanSoFar

(* The file and the kind of server never change, so neither does what they *)
(* say.                                                                    *)
LEMMA FileStays ==
  ASSUME GameDataInv, [GameDataNext]_vars
  PROVE  UNCHANGED <<file, dedicated>>
BY DEF GameDataNext, ReadFile, HandleSignature, ScanSignature, ScanCrashes, SignaturesEnd,
       InitFunctions, HandleAddress, ResolveAddress, ReportAddress, ReportCrashes,
       PassAddress, AddressesEnd, Ended, vars

LEMMA CleanSearched ==
  ASSUME ReferencesInv, CleanFile, NEW n, NEW s \in SearchedSignatures(n)
  PROVE  s \in SignatureEntries /\ s.name = n /\ s.library \in Modules /\ s.library # Nowhere
<1>1. /\ \A i \in DOMAIN file.signatures : file.signatures[i] \in SignatureEntries
      /\ \A i \in DOMAIN file.signatures : CleanSignature(file.signatures[i])
  BY EntryTypes DEF ReferencesInv, CleanFile
<1>2. PICK i \in DOMAIN file.signatures : s = file.signatures[i] /\ s.name = n
  BY DEF SearchedSignatures
<1> QED
  BY <1>1, <1>2, GameDataAssumption DEF CleanSignature

(* The first loop stores an entry or passes over a client's.               *)
LEMMA CleanSignatureStep ==
  ASSUME GameDataInv, HandleSignature, CleanFile
  PROVE  CleanSoFar'
<1> DEFINE e == file.signatures[next]
<1>1. /\ phase = "signatures" /\ next \in DOMAIN file.signatures
      /\ ScanSignature(e) \/ ScanCrashes(e)
  BY DEF HandleSignature
<1>2. e \in SignatureEntries /\ CleanSignature(e)
  BY <1>1, EntryTypes DEF CleanFile, GameDataInv, ReferencesInv
<1>3. ScanSignature(e)
  BY <1>1, <1>2, GameDataAssumption DEF ScanCrashes, CleanSignature
<1>4. UNCHANGED <<file, dedicated, phase, ref>> /\ next' = next + 1
  BY <1>3 DEF ScanSignature
<1>5. Skips(e.library) <=> Absent(e.library)
  BY DEF Skips, Absent
<1>6. ok' /\ (Stored(e) <=> ~Absent(e.library))
  <2>1. ok
    BY DEF GameDataInv, CleanSoFar
  <2>2. Readable(e) /\ e.library \in Modules
    BY <1>2 DEF CleanSignature, Readable
  <2>3. Stored(e) <=> ~Absent(e.library)
    BY <1>2, <1>5, <2>2 DEF CleanSignature, Stored, Searched
  <2>4. Absent(e.library) => Ignored(e)
    BY <1>5, <2>2 DEF Ignored
  <2> QED
    BY <1>3, <2>1, <2>3, <2>4 DEF ScanSignature
<1>7. signatures \in [Names -> Modules \cup {Nowhere}]
  BY DEF GameDataInv, ReferencesInv, GameDataTypeOK
<1>8. \A n : SearchedSignatures(n)' = SearchedSignatures(n)
  BY <1>4 DEF SearchedSignatures, Absent
<1>9. next \in Nat \ {0} /\ SignaturesRead = next - 1 /\ SignaturesRead' = next
  BY <1>1, <1>4 DEF SignaturesRead, GameDataInv, ReferencesInv, GameDataTypeOK
<1>10. ASSUME NEW n \in Names
       PROVE  /\ signatures'[n] # Nowhere =>
                   \E s \in SearchedSignatures(n) : signatures'[n] = s.library
              /\ (\E i \in 1 .. next : file.signatures[i] \in SearchedSignatures(n)) =>
                   signatures'[n] # Nowhere
  <2>1. /\ signatures[n] # Nowhere =>
             \E s \in SearchedSignatures(n) : signatures[n] = s.library
        /\ (\E i \in 1 .. next - 1 : file.signatures[i] \in SearchedSignatures(n)) =>
             signatures[n] # Nowhere
    BY <1>9 DEF GameDataInv, CleanSoFar
  <2>2. CASE Stored(e) /\ n = e.name
    <3>1. e \in SearchedSignatures(n)
      BY <1>1, <1>6, <2>2 DEF SearchedSignatures
    <3>2. signatures'[n] = e.library
      BY <1>3, <1>7, <2>2 DEF ScanSignature
    <3>3. e.library # Nowhere
      BY <3>1, CleanSearched DEF GameDataInv
    <3> QED
      BY <3>1, <3>2, <3>3
  <2>3. CASE ~(Stored(e) /\ n = e.name)
    <3>1. signatures'[n] = signatures[n]
      BY <1>3, <1>7, <2>3 DEF ScanSignature
    <3>2. e \notin SearchedSignatures(n)
      BY <1>6, <2>3 DEF SearchedSignatures
    <3>3. \A i \in 1 .. next : i = next \/ i \in 1 .. next - 1
      BY <1>9
    <3> QED
      BY <2>1, <3>1, <3>2, <3>3
  <2> QED
    BY <2>2, <2>3
<1> QED
  BY <1>1, <1>4, <1>6, <1>8, <1>9, <1>10 DEF CleanSoFar

(* The second loop finds a signature for every function it looks for.      *)
LEMMA CleanFunctionsStep ==
  ASSUME GameDataInv, InitFunctions, CleanFile
  PROVE  CleanSoFar'
<1>1. /\ UNCHANGED <<file, dedicated, next, signatures>>
      /\ phase = "functions" /\ phase' = "addresses"
      /\ ok' = (ok /\ AllFound)
  BY DEF InitFunctions
<1>2. /\ ok
      /\ SignaturesRead = Len(file.signatures) /\ SignaturesRead' = Len(file.signatures)
  BY <1>1 DEF GameDataInv, CleanSoFar, SignaturesRead
<1>3. AllFound
  <2> SUFFICES ASSUME NEW f \in Expected PROVE HasSignature(f)
    BY DEF AllFound
  <2>1. f \in FuncRefs /\ ~Absent(f.module) /\ f.name \in Names
    BY GameDataAssumption DEF Expected, Skips, Absent, Refs
  <2>2. PICK s \in SearchedSignatures(f.name) : TRUE
    BY <2>1 DEF CleanFile
  <2>3. PICK i \in DOMAIN file.signatures : s = file.signatures[i]
    BY DEF SearchedSignatures
  <2>4. DOMAIN file.signatures = 1 .. Len(file.signatures)
    BY GameDataAssumption DEF CleanFile, GameDataInv, ReferencesInv, GameDataTypeOK
  <2> QED
    BY <1>2, <2>1, <2>2, <2>3, <2>4 DEF GameDataInv, CleanSoFar, HasSignature
<1>4. next' = 1
  BY <1>1 DEF GameDataInv, ReferencesInv, Unread
<1>5. \A n : SearchedSignatures(n)' = SearchedSignatures(n)
  BY <1>1 DEF SearchedSignatures, Absent
<1>6. 1 .. next' - 1 = {}
  BY <1>4
<1> QED
  BY <1>1, <1>2, <1>3, <1>5, <1>6 DEF CleanSoFar, GameDataInv

(* An entry of the third loop whose library the process has is resolved,   *)
(* and what it is resolved to lies where it should.                        *)
LEMMA CleanAddressResolved ==
  ASSUME GameDataInv, CleanFile, phase = "addresses", next \in DOMAIN file.addresses,
         ~Absent(file.addresses[next].library)
  PROVE  LET e == file.addresses[next] IN
         ~Passed(e) /\ e.shape = "block" /\ Resolvable(e) /\ Resolved(e) = e.library
<1> DEFINE e == file.addresses[next]
<1>1. /\ e \in AddressEntries /\ CleanAddress(next) /\ next \in Nat
      /\ \A i \in DOMAIN file.addresses :
           file.addresses[i] \in AddressEntries /\ CleanAddress(i)
  BY EntryTypes DEF CleanFile, GameDataInv, ReferencesInv, GameDataTypeOK
<1>2. /\ e.shape = "block" /\ e.library \in Modules /\ e.library # Nowhere
      /\ Target(e) \in DataRefs /\ e.platform /\ e.offset = "near"
      /\ \/ /\ e.base = "signature" /\ e.operand = e.library
            /\ SearchedSignatures(e.baseName) # {}
            /\ \A s \in SearchedSignatures(e.baseName) : s.library = e.library
         \/ /\ e.base = "address"
            /\ \E j \in 1 .. next - 1 : Target(file.addresses[j]) = Base(e)
  BY <1>1, GameDataAssumption DEF CleanAddress
<1>3. ~Passed(e)
  BY <1>2 DEF Passed, Skips, Absent
<1>4. CASE e.base = "signature"
  <2>1. e.baseName \in Names
    BY <1>1 DEF AddressEntries
  <2>2. signatures[e.baseName] # Nowhere
    <3>1. SignaturesRead = Len(file.signatures)
          /\ DOMAIN file.signatures = 1 .. Len(file.signatures)
      BY GameDataAssumption DEF SignaturesRead, CleanFile, GameDataInv, ReferencesInv, GameDataTypeOK
    <3>2. PICK s \in SearchedSignatures(e.baseName) : TRUE
      BY <1>2, <1>4
    <3>3. PICK i \in DOMAIN file.signatures : s = file.signatures[i]
      BY DEF SearchedSignatures
    <3> QED
      BY <2>1, <3>1, <3>2, <3>3 DEF GameDataInv, CleanSoFar
  <2>3. signatures[e.baseName] = e.library
    BY <1>2, <1>4, <2>1, <2>2 DEF GameDataInv, CleanSoFar
  <2>4. Plus(signatures[e.baseName], e.offset) = e.library
    BY <1>2, <2>3 DEF Plus
  <2> QED
    BY <1>2, <1>3, <1>4, <2>2, <2>4 DEF Resolvable, Resolved, IsValidAddress
<1>5. CASE e.base = "address"
  <2>1. PICK j \in 1 .. next - 1 : Target(file.addresses[j]) = Base(e)
    BY <1>2, <1>5
  <2> DEFINE b == file.addresses[j]
  <2>2. j \in DOMAIN file.addresses
    <3>1. \E n \in Nat : DOMAIN file.addresses = 1 .. n
      BY GameDataAssumption DEF CleanFile, GameDataInv, ReferencesInv, GameDataTypeOK
    <3> QED
      BY <1>1, <3>1
  <2>3. b.library = e.library
    BY <2>1 DEF Target, Base
  <2>4. Target(b) \in DataRefs
    BY <1>1, <2>2, <2>3 DEF CleanAddress
  <2>5. ref[Base(e)] = e.library
    <3>1. ref[Target(b)] # Nowhere
      BY <2>1, <2>3 DEF GameDataInv, CleanSoFar
    <3>2. ref[Target(b)] \in {Nowhere, Target(b).module}
      BY <2>4 DEF GameDataInv, CleanSoFar, ReferencesInv, StrayIsReported
    <3>3. Target(b).module = e.library
      BY <2>3 DEF Target
    <3> QED
      BY <2>1, <3>1, <3>2, <3>3
  <2>6. Plus(ref[Base(e)], e.offset) = e.library
    BY <1>2, <2>5 DEF Plus
  <2> QED
    BY <1>2, <1>3, <1>5, <2>1, <2>4, <2>6 DEF Resolvable, Resolved
<1> QED
  BY <1>2, <1>4, <1>5

LEMMA CleanAddressStep ==
  ASSUME GameDataInv, HandleAddress, CleanFile
  PROVE  CleanSoFar'
<1> DEFINE e == file.addresses[next]
<1>1. /\ phase = "addresses" /\ next \in DOMAIN file.addresses /\ next \in Nat
      /\ ResolveAddress(e) \/ ReportAddress(e) \/ ReportCrashes(e) \/ PassAddress(e)
  BY DEF HandleAddress, GameDataInv, ReferencesInv, GameDataTypeOK
<1>2. ok /\ CleanAddress(next)
  BY <1>1 DEF GameDataInv, CleanSoFar, CleanFile
<1>3. /\ UNCHANGED <<file, dedicated, phase, signatures>>
      /\ next' = next + 1 /\ ok'
      /\ \A r \in DataRefs : ref[r] # Nowhere => ref'[r] # Nowhere
      /\ Absent(e.library) \/ ref'[Target(e)] # Nowhere
  <2>1. CASE Absent(e.library)
    <3>1. Passed(e)
      BY <1>2, <2>1 DEF CleanAddress, Passed, Skips, Absent
    <3>2. PassAddress(e)
      BY <1>1, <3>1 DEF ResolveAddress, ReportAddress, ReportCrashes, Rejected
    <3> QED
      BY <1>2, <2>1, <3>2 DEF PassAddress
  <2>2. CASE ~Absent(e.library)
    <3>1. ~Passed(e) /\ e.shape = "block" /\ Resolvable(e) /\ Resolved(e) = e.library
      BY <1>1, <2>2, CleanAddressResolved
    <3>2. ResolveAddress(e)
      BY <1>1, <3>1 DEF PassAddress, ReportAddress, ReportCrashes, Rejected
    <3>3. ref' = [ref EXCEPT ![Target(e)] = e.library] /\ ok'
      BY <1>2, <3>1, <3>2 DEF ResolveAddress, IsValidAddress
    <3>4. e.library # Nowhere /\ Target(e) \in DataRefs
      BY <3>1, GameDataAssumption DEF Resolvable
    <3>5. ref \in [Refs -> Places] /\ DataRefs \subseteq Refs
      BY DEF GameDataInv, ReferencesInv, GameDataTypeOK, Refs
    <3> QED
      BY <3>2, <3>3, <3>4, <3>5 DEF ResolveAddress
  <2> QED
    BY <2>1, <2>2
<1>4. \A n : SearchedSignatures(n)' = SearchedSignatures(n)
  BY <1>3 DEF SearchedSignatures, Absent
<1>5. SignaturesRead' = SignaturesRead
  BY <1>1, <1>3 DEF SignaturesRead
<1>6. ASSUME NEW i \in 1 .. next
      PROVE  LET a == file.addresses[i] IN Absent(a.library) \/ ref'[Target(a)] # Nowhere
  <2> DEFINE a == file.addresses[i]
  <2>1. CASE i = next
    BY <1>3, <2>1
  <2>2. CASE i # next /\ ~Absent(a.library)
    <3>1. i \in 1 .. next - 1
      BY <1>1, <2>2
    <3>2. i \in DOMAIN file.addresses
      <4>1. \E n \in Nat : DOMAIN file.addresses = 1 .. n
        BY GameDataAssumption DEF CleanFile, GameDataInv, ReferencesInv, GameDataTypeOK
      <4> QED
        BY <1>1, <3>1, <4>1
    <3>3. Target(a) \in DataRefs
      BY <2>2, <3>2 DEF CleanFile, CleanAddress
    <3>4. ref[Target(a)] # Nowhere
      BY <1>1, <2>2, <3>1 DEF GameDataInv, CleanSoFar
    <3> QED
      BY <1>3, <3>3, <3>4
  <2> QED
    BY <2>1, <2>2
<1>7. \A i \in 1 .. next' - 1 : i \in 1 .. next
  BY <1>1, <1>3
<1> QED
  BY <1>1, <1>3, <1>4, <1>5, <1>6, <1>7 DEF CleanSoFar, GameDataInv, Absent

LEMMA GameDataInvStep ==
  ASSUME GameDataInv, [GameDataNext]_vars
  PROVE  GameDataInv'
<1>1. ReferencesInv'
  BY ReferencesStep DEF GameDataInv
<1>2. SUFFICES ASSUME CleanFile' PROVE CleanSoFar'
  BY <1>1 DEF GameDataInv, CleanSoFar
<1>3. CleanFile
  <2>1. UNCHANGED <<file, dedicated>>
    BY FileStays
  <2>2. /\ \A e : CleanSignature(e)' = CleanSignature(e)
        /\ \A m : Absent(m)' = Absent(m)
        /\ \A n : SearchedSignatures(n)' = SearchedSignatures(n)
    BY <2>1 DEF CleanSignature, SearchedSignatures, Absent
  <2>3. \A i : CleanAddress(i)' = CleanAddress(i)
    BY <2>1, <2>2 DEF CleanAddress, Target, Base
  <2> QED
    BY <1>2, <2>1, <2>2, <2>3 DEF CleanFile
<1>4. ok /\ phase # "crashed"
  BY <1>3 DEF GameDataInv, CleanSoFar
<1>5. \A n : SearchedSignatures(n)' = SearchedSignatures(n)
  BY FileStays DEF SearchedSignatures, Absent
<1>6. CASE ReadFile
  <2>1. /\ phase = "read" /\ phase' = "signatures" /\ ok'
        /\ UNCHANGED <<file, dedicated, next, signatures, ref>>
    BY <1>3, <1>6 DEF ReadFile, CleanFile
  <2>2. SignaturesRead = 0
    BY <2>1 DEF SignaturesRead
  <2>3. next = 1
    BY <2>1 DEF GameDataInv, ReferencesInv, Unread
  <2>4. SignaturesRead' = 0
    BY <2>1, <2>3 DEF SignaturesRead
  <2> QED
    BY <1>3, <1>5, <2>1, <2>2, <2>4 DEF CleanSoFar, GameDataInv
<1>7. CASE SignaturesEnd
  <2>1. /\ phase = "signatures" /\ phase' = "functions" /\ next' = 1
        /\ next = Len(file.signatures) + 1
        /\ UNCHANGED <<file, dedicated, signatures, ref, ok>>
    BY <1>7 DEF SignaturesEnd
  <2>2. Len(file.signatures) \in Nat
    BY <1>3, GameDataAssumption DEF CleanFile, GameDataInv, ReferencesInv, GameDataTypeOK
  <2>3. SignaturesRead = Len(file.signatures) /\ SignaturesRead' = Len(file.signatures)
    BY <2>1, <2>2 DEF SignaturesRead
  <2> QED
    BY <1>3, <1>5, <2>1, <2>3 DEF CleanSoFar, GameDataInv
<1>8. CASE AddressesEnd
  <2>1. /\ phase = "addresses" /\ phase' = "done"
        /\ UNCHANGED <<file, dedicated, next, signatures, ref, ok>>
    BY <1>8 DEF AddressesEnd
  <2>2. SignaturesRead' = SignaturesRead
    BY <2>1 DEF SignaturesRead
  <2> QED
    BY <1>3, <1>5, <2>1, <2>2 DEF CleanSoFar, GameDataInv
<1>9. CASE Ended \/ UNCHANGED vars
  <2>1. UNCHANGED vars
    BY <1>9 DEF Ended
  <2> QED
    BY <1>3, <1>5, <2>1 DEF CleanSoFar, GameDataInv, SignaturesRead, vars, Absent, Target
<1> QED
  BY <1>3, <1>6, <1>7, <1>8, <1>9, CleanSignatureStep, CleanFunctionsStep, CleanAddressStep
  DEF GameDataNext

-------------------------------------------------------------------------------
(* ParseGameData keeps its invariant from the first statement to the last. *)
THEOREM GameDataInvariant == GameDataSpec => []GameDataInv
  BY GameDataInvInit, GameDataInvStep, PTL DEF GameDataSpec

(* Every variable keeps its type: an entry of the file is never read       *)
(* outside its loop, nothing but a place is ever assigned to a reference.  *)
THEOREM GameDataTypeCorrect == GameDataSpec => []GameDataTypeOK
<1>1. GameDataInv => GameDataTypeOK
  BY DEF GameDataInv, ReferencesInv
<1> QED  BY <1>1, GameDataInvariant, PTL

(* For every file, on either kind of server: when ParseGameData answers    *)
(* true, every function the server needs has an address, and a data        *)
(* reference leads into its module, or the file has no entry for it        *)
(* (338-509).                                                              *)
THEOREM GameDataSuccessIsUsable == GameDataSpec => []SuccessIsUsable
<1>1. GameDataInv => SuccessIsUsable
  <2> SUFFICES ASSUME ReferencesInv, phase = "done", ok PROVE SuccessIsUsable
    BY DEF GameDataInv, SuccessIsUsable
  <2>1. file # NoFile /\ AddressesRead = Len(file.addresses)
    BY DEF ReferencesInv, RefusedWithoutFile, AddressesRead
  <2>2. DOMAIN file.addresses = 1 .. Len(file.addresses)
    BY <2>1, GameDataAssumption DEF ReferencesInv, GameDataTypeOK
  <2>3. \A d \in DataRefs :
          /\ ref[d] \in {Nowhere, d.module}
          /\ \A i \in DOMAIN file.addresses :
               Gives(file.addresses[i], d) => ref[d] # Nowhere
    BY <2>1, <2>2 DEF ReferencesInv, StrayIsReported, GivenIsSet
  <2>4. \A f \in FuncRefs : Absent(f.module) \/ ref[f] \in Modules
    BY DEF ReferencesInv, FunctionsSet, Expected, Skips, Absent
  <2> QED
    BY <2>3, <2>4 DEF SuccessIsUsable
<1> QED  BY <1>1, GameDataInvariant, PTL

(* For every file in which nothing is wrong, on either kind of server:     *)
(* every text is read and found, every address resolved, what is said of   *)
(* an absent client passed over, so ParseGameData answers true (338-509).  *)
THEOREM GameDataCleanFileAccepted == GameDataSpec => []CleanFileAccepted
<1>1. GameDataInv => CleanFileAccepted
  BY DEF GameDataInv, CleanSoFar, CleanFileAccepted
<1> QED  BY <1>1, GameDataInvariant, PTL
===============================================================================
