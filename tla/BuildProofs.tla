----------------------------- MODULE BuildProofs -----------------------------
(***************************************************************************)
(* Proofs about the life of a JIT module and about spawn_blocking_build,    *)
(* which carries one to the pool.  The module, for every set of names,      *)
(* helpers, signatures and linkages and every depth of nested builds:       *)
(* types, true answers, finalization that can only miss an unregistered     *)
(* helper, and calls that agree with what they reach.  The build, for every *)
(* number of calls in flight, every size of the pool and every module:      *)
(* whoever holds the module outside of the closure holds a whole one, its   *)
(* code is not called after it is gone, it is never left over or used once  *)
(* dropped, the pool sets no call back, and it locks up only when every     *)
(* thread is blocked in a shim, then for good.                              *)
(***************************************************************************)
EXTENDS SpawnBuild, SequenceTheorems, FiniteSetTheorems, TLAPS

(***************************************************************************)
(* The module: the inductive invariant                                      *)
(***************************************************************************)
Decl  == [name : Name, linkage : Linkages, sig : Sig]
Build == [id : DOMAIN decls, sig : Sig, disasm : BOOLEAN, calls : SUBSET Site]

\* One FuncId per name.
DeclsOK ==
  /\ decls \in Seq(Decl)
  /\ \A a, b \in DOMAIN decls : decls[a].name = decls[b].name => a = b

\* The table has under a name a helper of that name.
SymbolsOK ==
  /\ DOMAIN symbols \subseteq Name
  /\ \A name \in DOMAIN symbols : symbols[name] \in Helper /\ HelperName[symbols[name]] = name

\* A call site is compiled for the signature declared; the id is that of a
\* function built, or was declared for the helper.
SiteOK(s) ==
  /\ s \in Site
  /\ s.sig = decls[s.id].sig
  /\ s.helper = "none" => s.id \in given
  /\ s.helper # "none" => decls[s.id].name = HelperName[s.helper]

CodeOK ==
  /\ DOMAIN code \subseteq DOMAIN decls
  /\ \A id \in DOMAIN code :
       /\ decls[id].linkage # "Import" /\ code[id].sig = decls[id].sig
       /\ \A s \in code[id].calls : SiteOK(s)

OpenOK ==
  /\ open \in Seq(Build)
  /\ \A j \in 1 .. Len(open) :
       /\ open[j].sig = decls[open[j].id].sig
       /\ \A s \in open[j].calls : SiteOK(s)

\* What a site was linked to: the code of its id, the helper registered under
\* the name of its id, or what the process has under that name.
LinkOK(s, t) ==
  \/ /\ t.kind = "jit" /\ t = [kind |-> "jit", of |-> s.id]
     /\ s.id \in DOMAIN code
  \/ \E h \in Helper : t = [kind |-> "host", of |-> h] /\ HelperName[h] = decls[s.id].name
  \/ t = [kind |-> "process", of |-> NoId] /\ decls[s.id].name \in ProcessSymbol

LinksOK ==
  /\ DOMAIN links \subseteq DOMAIN code
  /\ \A id \in DOMAIN links :
       /\ DOMAIN links[id] = code[id].calls
       /\ \A s \in DOMAIN links[id] : LinkOK(s, links[id][s])

ClientOK ==
  /\ ids \in [Helper -> DOMAIN decls \cup {NoId}]
  /\ \A h \in Helper : ids[h] # NoId =>
       decls[ids[h]].name = HelperName[h] /\ decls[ids[h]].sig = HelperSig[h]
  /\ given \subseteq DOMAIN code
  /\ answer.id \in DOMAIN decls \cup {NoId}
  /\ answer.err = "none" => answer.id \in given \cup {NoId}

CountsOK ==
  /\ phase \in {"builder", "module", "declare failed", "unresolved"}
  /\ builds \in 0 .. MaxEffort

\* The inductive invariant: the parts above, and the two properties that are
\* about the step that has just been taken.
JitInv ==
  /\ DeclsOK /\ SymbolsOK /\ CodeOK /\ OpenOK /\ LinksOK /\ ClientOK /\ CountsOK
  /\ AnswerTruthful /\ FinalizeSafe

(***************************************************************************)
(* What a step keeps of declarations, code and the client's ids (Grows says *)
(* the same and adds the links).                                            *)
(***************************************************************************)
Keeps ==
  /\ DOMAIN decls \subseteq DOMAIN decls'
  /\ \A id \in DOMAIN decls :
       /\ decls'[id].name = decls[id].name /\ decls'[id].sig = decls[id].sig
       /\ decls'[id].linkage = "Import" => decls[id].linkage = "Import"
  /\ DOMAIN code \subseteq DOMAIN code'
  /\ \A id \in DOMAIN code : code'[id] = code[id]
  /\ given \subseteq given'

LEMMA DeclDomain ==
  ASSUME DeclsOK
  PROVE  /\ DOMAIN decls = 1 .. Len(decls) /\ Len(decls) \in Nat
         /\ \A id \in DOMAIN decls : decls[id] \in Decl /\ id # NoId
<1>1. DOMAIN decls = 1 .. Len(decls) /\ Len(decls) \in Nat
  BY LenProperties DEF DeclsOK
<1>2. \A id \in DOMAIN decls : decls[id] \in Decl
  BY <1>1, ElementOfSeq DEF DeclsOK
<1> QED
  BY <1>1, <1>2 DEF NoId

LEMMA MergeType ==
  ASSUME NEW old \in Linkages, NEW new \in Linkages
  PROVE  /\ merge(old, new) \in Linkages
         /\ merge(old, new) = "Import" => old = "Import"
BY DEF merge, Linkages

\* declare_function returns an id of that name, of that signature unless it
\* refuses, keeps every earlier declaration and never makes a second one.
LEMMA DeclareFunction ==
  ASSUME DeclsOK, NEW name \in Name, NEW linkage \in Linkages, NEW sig \in Sig,
         NEW d, d = declare_function(name, linkage, sig)
  PROVE  /\ d.decls \in Seq(Decl)
         /\ \A a, b \in DOMAIN d.decls : d.decls[a].name = d.decls[b].name => a = b
         /\ DOMAIN decls \subseteq DOMAIN d.decls
         /\ \A id \in DOMAIN decls :
              /\ d.decls[id].name = decls[id].name /\ d.decls[id].sig = decls[id].sig
              /\ d.decls[id].linkage = "Import" => decls[id].linkage = "Import"
         /\ d.id \in DOMAIN d.decls /\ d.decls[d.id].name = name
         /\ d.err \in {"none", "IncompatibleSignature"}
         /\ d.err = "none" => d.decls[d.id].sig = sig
<1> DEFINE new == [name |-> name, linkage |-> linkage, sig |-> sig]
           added == Append(decls, new)
<1>1. new \in Decl
  BY DEF Decl
<1>2. CASE Declared(name) = {}
  <2>1. d.id = Len(decls) + 1 /\ d.decls = added /\ d.err = "none"
    BY <1>2 DEF declare_function
  <2>2. /\ added \in Seq(Decl) /\ Len(added) = Len(decls) + 1
        /\ \A id \in 1 .. Len(decls) : added[id] = decls[id]
        /\ added[Len(decls) + 1] = new
    BY <1>1, AppendProperties DEF DeclsOK
  <2>3. DOMAIN added = 1 .. Len(decls) + 1
    BY <2>2, LenProperties
  <2> HIDE DEF added
  <2>4. \A id \in DOMAIN decls : decls[id].name # name
    BY <1>2 DEF Declared
  <2>5. \A a, b \in DOMAIN added : added[a].name = added[b].name => a = b
    BY <2>2, <2>3, <2>4, DeclDomain DEF DeclsOK
  <2> QED
    BY <2>1, <2>2, <2>3, <2>5, DeclDomain
<1>3. CASE Declared(name) # {}
  <2> DEFINE id == CHOOSE k \in Declared(name) : TRUE
             e  == [decls[id] EXCEPT !.linkage = merge(@, linkage)]
             merged == [decls EXCEPT ![id] = e]
  <2>1. id \in Declared(name)
    BY <1>3
  <2>2. id \in DOMAIN decls /\ decls[id].name = name
    BY <2>1 DEF Declared
  <2>3. /\ d.id = id /\ d.decls = merged
        /\ d.err = IF decls[id].sig = sig THEN "none" ELSE "IncompatibleSignature"
    BY <1>3 DEF declare_function
  <2> HIDE DEF id
  <2>4. /\ e \in Decl /\ e.name = decls[id].name /\ e.sig = decls[id].sig
        /\ e.linkage = "Import" => decls[id].linkage = "Import"
    <3>1. decls[id] \in Decl
      BY <2>2, DeclDomain
    <3>2. /\ merge(decls[id].linkage, linkage) \in Linkages
          /\ merge(decls[id].linkage, linkage) = "Import" => decls[id].linkage = "Import"
      BY <3>1, MergeType DEF Decl
    <3> QED
      BY <3>1, <3>2 DEF Decl
  <2> HIDE DEF e
  <2>5. /\ merged \in Seq(Decl) /\ DOMAIN merged = DOMAIN decls
        /\ \A k \in DOMAIN decls : merged[k] = IF k = id THEN e ELSE decls[k]
    BY <2>2, <2>4, DeclDomain, ExceptSeq DEF DeclsOK
  <2> HIDE DEF merged
  <2>6. \A k \in DOMAIN decls :
          /\ merged[k].name = decls[k].name /\ merged[k].sig = decls[k].sig
          /\ merged[k].linkage = "Import" => decls[k].linkage = "Import"
    BY <2>4, <2>5
  <2> QED
    BY <2>2, <2>3, <2>5, <2>6 DEF DeclsOK
<1> QED
  BY <1>2, <1>3

(***************************************************************************)
(* Each part of the invariant along a step that keeps what it is about      *)
(***************************************************************************)
LEMMA SiteKept ==
  ASSUME Keeps, NEW s, SiteOK(s)
  PROVE  SiteOK(s)'
BY DEF Keeps, SiteOK, Site

LEMMA BuildKept ==
  ASSUME Keeps
  PROVE  Build \subseteq Build' /\ Site \subseteq Site'
<1>1. Site \subseteq Site'
  BY DEF Site, Keeps
<1> QED
  BY <1>1 DEF Build, Keeps

LEMMA CodeKept ==
  ASSUME CodeOK, Keeps, code' = code
  PROVE  CodeOK'
<1>1. \A id \in DOMAIN code :
        decls'[id].linkage # "Import" /\ code[id].sig = decls'[id].sig
  BY DEF CodeOK, Keeps
<1>2. \A id \in DOMAIN code : \A s \in code[id].calls : SiteOK(s)'
  BY SiteKept DEF CodeOK
<1> QED
  BY <1>1, <1>2 DEF CodeOK, Keeps

LEMMA OpenElement ==
  ASSUME OpenOK, NEW j \in 1 .. Len(open)
  PROVE  open[j] \in Build
BY ElementOfSeq DEF OpenOK

\* A sequence of builds all of which were open.
LEMMA BuildsKept ==
  ASSUME OpenOK, Keeps, NEW some \in Seq(Build), open' = some,
         \A i \in 1 .. Len(some) : \E j \in 1 .. Len(open) : some[i] = open[j]
  PROVE  OpenOK'
<1>1. some \in Seq(Build')
  BY BuildKept, SeqMonotonic
<1>2. ASSUME NEW i \in 1 .. Len(some)
      PROVE  /\ some[i].sig = decls'[some[i].id].sig
             /\ \A s \in some[i].calls : SiteOK(s)'
  <2>1. PICK j \in 1 .. Len(open) : some[i] = open[j]
    OBVIOUS
  <2>2. open[j] \in Build
    BY OpenElement
  <2> QED
    BY <2>1, <2>2, SiteKept DEF OpenOK, Build, Keeps
<1> QED
  BY <1>1, <1>2 DEF OpenOK

LEMMA OpenKept ==
  ASSUME OpenOK, Keeps, open' = open
  PROVE  OpenOK'
BY BuildsKept DEF OpenOK

LEMMA NoneOpen ==
  ASSUME open' = <<>>
  PROVE  OpenOK'
BY EmptySeq DEF OpenOK

LEMMA LinksKept ==
  ASSUME LinksOK, CodeOK, Keeps, links' = links
  PROVE  LinksOK'
<1>1. ASSUME NEW id \in DOMAIN links, NEW s \in DOMAIN links[id]
      PROVE  LinkOK(s, links[id][s])'
  <2>1. s \in code[id].calls /\ id \in DOMAIN code /\ LinkOK(s, links[id][s])
    BY DEF LinksOK
  <2>2. s.id \in DOMAIN decls
    BY <2>1 DEF CodeOK, SiteOK, Site
  <2> QED
    BY <2>1, <2>2 DEF LinkOK, Keeps
<1>2. DOMAIN links \subseteq DOMAIN code'
  BY DEF LinksOK, Keeps
<1>3. \A id \in DOMAIN links : code'[id] = code[id]
  BY DEF LinksOK, Keeps
<1> QED
  BY <1>1, <1>2, <1>3 DEF LinksOK

\* The ids of the client, after a step that declares at most.
LEMMA ClientKept ==
  ASSUME ClientOK, DeclsOK, Keeps, ids' = ids, given' = given, answer' = answer
  PROVE  ClientOK'
<1>1. \A h \in Helper : ids[h] # NoId => ids[h] \in DOMAIN decls
  BY DEF ClientOK
<1>2. \A h \in Helper : ids[h] # NoId =>
        decls'[ids[h]].name = HelperName[h] /\ decls'[ids[h]].sig = HelperSig[h]
  BY <1>1 DEF ClientOK, Keeps
<1>3. ids \in [Helper -> DOMAIN decls' \cup {NoId}] /\ given \subseteq DOMAIN code'
  BY DEF ClientOK, Keeps
<1>4. answer.id \in DOMAIN decls' \cup {NoId}
  BY DEF ClientOK, Keeps
<1> QED
  BY <1>2, <1>3, <1>4 DEF ClientOK

(***************************************************************************)
(* The actions                                                              *)
(***************************************************************************)
\* A step that leaves declarations, code and the client alone.
LEMMA NothingNew ==
  ASSUME JitInv, module' = module, client' = client
  PROVE  Keeps /\ DeclsOK' /\ CodeOK' /\ ClientOK' /\ AnswerTruthful'
<1>1. decls' = decls /\ code' = code /\ ids' = ids /\ given' = given /\ answer' = answer
  BY DEF module, client
<1>2. Keeps /\ DeclsOK' /\ AnswerTruthful'
  BY <1>1 DEF JitInv, Keeps, DeclsOK, AnswerTruthful
<1> QED
  BY <1>1, <1>2, CodeKept, ClientKept DEF JitInv

LEMMA RegisterStep ==
  ASSUME JitInv, NEW h \in Helper, Register(h)
  PROVE  JitInv' /\ Keeps
<1>1. phase' = "builder" /\ open' = open /\ links' = links /\ builds' = builds
  BY DEF Register
<1>2. Keeps /\ DeclsOK' /\ CodeOK' /\ ClientOK' /\ AnswerTruthful'
  BY NothingNew DEF Register
<1>3. SymbolsOK'
  <2>1. HelperName[h] \in Name
    BY JitAssumption
  <2> QED
    BY <2>1 DEF Register, JitInv, SymbolsOK
<1>4. OpenOK' /\ LinksOK'
  BY <1>1, <1>2, OpenKept, LinksKept DEF JitInv, Register, module
<1>5. CountsOK' /\ FinalizeSafe'
  BY <1>1 DEF JitInv, CountsOK, FinalizeSafe
<1> QED
  BY <1>2, <1>3, <1>4, <1>5 DEF JitInv

LEMMA NewModuleStep ==
  ASSUME JitInv, NewModule
  PROVE  JitInv' /\ Keeps
<1>1. /\ phase' = "module" /\ open' = open /\ links' = links /\ builds' = builds
      /\ symbols' = symbols
  BY DEF NewModule
<1>2. Keeps /\ DeclsOK' /\ CodeOK' /\ ClientOK' /\ AnswerTruthful'
  BY NothingNew DEF NewModule
<1>3. OpenOK' /\ LinksOK'
  BY <1>1, <1>2, OpenKept, LinksKept DEF JitInv, NewModule, module
<1>4. CountsOK' /\ FinalizeSafe' /\ SymbolsOK'
  BY <1>1 DEF JitInv, CountsOK, FinalizeSafe, SymbolsOK
<1> QED
  BY <1>2, <1>3, <1>4 DEF JitInv

\* A step that declares, and touches code and answers no more than given.
LEMMA Declaring ==
  ASSUME JitInv, NEW name \in Name, NEW linkage \in Linkages, NEW sig \in Sig,
         decls' = declare_function(name, linkage, sig).decls,
         code' = code, links' = links, given \subseteq given'
  PROVE  Keeps /\ DeclsOK' /\ CodeOK' /\ LinksOK'
<1>1. Keeps /\ DeclsOK'
  BY DeclareFunction DEF JitInv, DeclsOK, Keeps
<1> QED
  BY <1>1, CodeKept, LinksKept DEF JitInv

\* The id of a helper that has just been declared.
LEMMA ClientDeclares ==
  ASSUME JitInv, NEW h \in Helper, NEW d,
         d = declare_function(HelperName[h], "Import", HelperSig[h]),
         decls' = d.decls, code' = code, given' = given, answer' = answer,
         ids' = IF d.err = "none" THEN [ids EXCEPT ![h] = d.id] ELSE ids
  PROVE  ClientOK'
<1>1. HelperName[h] \in Name /\ HelperSig[h] \in Sig /\ "Import" \in Linkages
  BY JitAssumption DEF Linkages
<1>2. /\ d.id \in DOMAIN decls' /\ decls'[d.id].name = HelperName[h]
      /\ d.err = "none" => decls'[d.id].sig = HelperSig[h]
      /\ DOMAIN decls \subseteq DOMAIN decls'
      /\ \A id \in DOMAIN decls :
           decls'[id].name = decls[id].name /\ decls'[id].sig = decls[id].sig
  BY <1>1, DeclareFunction DEF JitInv
<1>3. ids' \in [Helper -> DOMAIN decls' \cup {NoId}]
  BY <1>2 DEF JitInv, ClientOK
<1>4. ASSUME NEW g \in Helper, ids'[g] # NoId
      PROVE  decls'[ids'[g]].name = HelperName[g] /\ decls'[ids'[g]].sig = HelperSig[g]
  <2>1. CASE d.err = "none" /\ g = h
    BY <1>2, <2>1 DEF JitInv, ClientOK
  <2>2. CASE ~(d.err = "none" /\ g = h)
    <3>1. ids'[g] = ids[g] /\ ids[g] \in DOMAIN decls
      BY <1>4, <2>2 DEF JitInv, ClientOK
    <3> QED
      BY <1>2, <1>4, <3>1 DEF JitInv, ClientOK
  <2> QED
    BY <2>1, <2>2
<1>5. given' \subseteq DOMAIN code' /\ answer'.id \in DOMAIN decls' \cup {NoId}
  BY <1>2 DEF JitInv, ClientOK
<1> QED
  BY <1>3, <1>4, <1>5 DEF JitInv, ClientOK

LEMMA TryDeclareStep ==
  ASSUME JitInv, NEW h \in Helper, TryDeclare(h)
  PROVE  JitInv' /\ Keeps
<1> DEFINE d == declare_function(HelperName[h], "Import", HelperSig[h])
<1>1. /\ phase = "module" /\ phase' = phase /\ symbols' = symbols /\ code' = code
      /\ links' = links /\ open' = open /\ given' = given /\ answer' = answer
      /\ builds' = builds /\ decls' = d.decls
      /\ ids' = IF d.err = "none" THEN [ids EXCEPT ![h] = d.id] ELSE ids
  BY DEF TryDeclare
<1>2. HelperName[h] \in Name /\ HelperSig[h] \in Sig /\ "Import" \in Linkages
  BY JitAssumption DEF Linkages
<1> HIDE DEF d
<1>3. Keeps /\ DeclsOK' /\ CodeOK' /\ LinksOK'
  BY <1>1, <1>2, Declaring DEF d
<1>4. ClientOK'
  BY <1>1, ClientDeclares DEF d
<1>5. OpenOK' /\ SymbolsOK'
  BY <1>1, <1>3, OpenKept DEF JitInv, SymbolsOK
<1>6. CountsOK' /\ FinalizeSafe' /\ AnswerTruthful'
  BY <1>1 DEF JitInv, CountsOK, FinalizeSafe, AnswerTruthful
<1> QED
  BY <1>3, <1>4, <1>5, <1>6 DEF JitInv

LEMMA DeclareStep ==
  ASSUME JitInv, NEW h \in Helper, Declare(h)
  PROVE  JitInv' /\ Keeps
<1> DEFINE d == declare_function(HelperName[h], "Import", HelperSig[h])
<1>1. /\ symbols' = symbols /\ code' = code /\ links' = links /\ given' = given
      /\ answer' = answer /\ builds' = builds /\ decls' = d.decls
      /\ ids' = IF d.err = "none" THEN [ids EXCEPT ![h] = d.id] ELSE ids
      /\ open' \in {open, <<>>} /\ phase' \in {"module", "declare failed"}
  BY DEF Declare
<1>2. HelperName[h] \in Name /\ HelperSig[h] \in Sig /\ "Import" \in Linkages
  BY JitAssumption DEF Linkages
<1> HIDE DEF d
<1>3. Keeps /\ DeclsOK' /\ CodeOK' /\ LinksOK'
  BY <1>1, <1>2, Declaring DEF d
<1>4. ClientOK'
  BY <1>1, ClientDeclares DEF d
<1>5. OpenOK' /\ SymbolsOK'
  BY <1>1, <1>3, OpenKept, NoneOpen DEF JitInv, SymbolsOK
<1>6. CountsOK' /\ FinalizeSafe' /\ AnswerTruthful'
  BY <1>1 DEF JitInv, CountsOK, FinalizeSafe, AnswerTruthful
<1> QED
  BY <1>3, <1>4, <1>5, <1>6 DEF JitInv

LEMMA BuildCounted ==
  ASSUME CountsOK, Effort < MaxEffort
  PROVE  builds + 1 \in 0 .. MaxEffort
<1>1. IsFiniteSet(Used)
  BY JitAssumption, FS_Subset DEF Used
<1>2. Cardinality(Used) \in Nat
  BY <1>1, FS_CardinalityType
<1>3. MaxEffort \in Nat
  BY JitAssumption
<1>4. builds + Cardinality(Used) < MaxEffort /\ builds \in 0 .. MaxEffort
  BY DEF CountsOK, Effort
<1> QED
  BY <1>2, <1>3, <1>4

LEMMA BeginStep ==
  ASSUME JitInv, NEW name \in Name, NEW linkage \in Linkages, NEW sig \in Sig,
         NEW disasm \in BOOLEAN, Begin(name, linkage, sig, disasm)
  PROVE  JitInv' /\ Keeps
<1> DEFINE d == declare_function(name, linkage, sig)
           b == [id |-> d.id, sig |-> sig, disasm |-> disasm, calls |-> {}]
<1>1. /\ phase = "module" /\ phase' = phase /\ symbols' = symbols /\ code' = code
      /\ links' = links /\ ids' = ids /\ builds' = builds + 1 /\ decls' = d.decls
      /\ Effort < MaxEffort
      /\ IF d.err = "none" THEN open' = Append(open, b) /\ given' = given /\ answer' = answer
         ELSE Answered(d.id, d.err) /\ open' = open
  BY DEF Begin
<1>2. /\ d.id \in DOMAIN decls' /\ d.err \in {"none", "IncompatibleSignature"}
      /\ d.err = "none" => decls'[d.id].sig = sig
  BY <1>1, DeclareFunction DEF JitInv
<1>3. given' = given
  BY <1>1 DEF Answered
<1> HIDE DEF d
<1>4. Keeps /\ DeclsOK' /\ CodeOK' /\ LinksOK'
  BY <1>1, <1>3, Declaring DEF d
<1>5. CASE d.err = "none"
  <2>1. ClientOK'
    BY <1>1, <1>4, <1>5, ClientKept DEF JitInv
  <2>2. b \in Build'
    BY <1>2 DEF Build
  <2>3. open \in Seq(Build')
    BY <1>4, BuildKept, SeqMonotonic DEF JitInv, OpenOK
  <2>4. /\ open' \in Seq(Build') /\ Len(open') = Len(open) + 1
        /\ \A j \in 1 .. Len(open) : open'[j] = open[j]
        /\ open'[Len(open) + 1] = b
    BY <1>1, <1>5, <2>2, <2>3, AppendProperties
  <2>5. ASSUME NEW j \in 1 .. Len(open')
        PROVE  /\ open'[j].sig = decls'[open'[j].id].sig
               /\ \A s \in open'[j].calls : SiteOK(s)'
    <3>1. CASE j \in 1 .. Len(open)
      <4>1. open[j] \in Build /\ open'[j] = open[j]
        BY <2>4, <3>1, OpenElement DEF JitInv
      <4> QED
        BY <1>4, <3>1, <4>1, SiteKept DEF JitInv, OpenOK, Build, Keeps
    <3>2. CASE j \notin 1 .. Len(open)
      <4>1. Len(open) \in Nat
        BY <2>3, LenProperties
      <4>2. open'[j] = b
        BY <2>4, <3>2, <4>1
      <4> QED
        BY <1>2, <1>5, <4>2
    <3> QED
      BY <3>1, <3>2
  <2>6. OpenOK'
    BY <2>4, <2>5 DEF OpenOK
  <2>7. AnswerTruthful'
    BY <1>1, <1>5 DEF JitInv, AnswerTruthful
  <2> QED
    BY <1>1, <1>4, <2>1, <2>6, <2>7, BuildCounted
       DEF JitInv, CountsOK, SymbolsOK, FinalizeSafe
<1>6. CASE d.err # "none"
  <2>1. /\ answer' = [id |-> d.id, err |-> "IncompatibleSignature"] /\ open' = open
    BY <1>1, <1>2, <1>6 DEF Answered
  <2>2. ClientOK'
    <3>1. \A h \in Helper : ids[h] # NoId => ids[h] \in DOMAIN decls
      BY DEF JitInv, ClientOK
    <3>2. \A h \in Helper : ids'[h] # NoId =>
            decls'[ids'[h]].name = HelperName[h] /\ decls'[ids'[h]].sig = HelperSig[h]
      BY <1>1, <1>4, <3>1 DEF JitInv, ClientOK, Keeps
    <3>3. ids' \in [Helper -> DOMAIN decls' \cup {NoId}] /\ given' \subseteq DOMAIN code'
      BY <1>1, <1>3, <1>4 DEF JitInv, ClientOK, Keeps
    <3> QED
      BY <1>2, <2>1, <3>2, <3>3 DEF ClientOK
  <2>3. OpenOK' /\ AnswerTruthful'
    BY <1>4, <2>1, OpenKept DEF JitInv, AnswerTruthful
  <2> QED
    BY <1>1, <1>4, <2>2, <2>3, BuildCounted
       DEF JitInv, CountsOK, SymbolsOK, FinalizeSafe
<1> QED
  BY <1>5, <1>6

\* The stack of open builds without its innermost.
LEMMA RestIsOpen ==
  ASSUME OpenOK, open # <<>>
  PROVE  /\ Len(open) \in Nat \ {0} /\ Top \in Build
         /\ Top.sig = decls[Top.id].sig /\ \A s \in Top.calls : SiteOK(s)
         /\ Rest \in Seq(Build) /\ Len(Rest) = Len(open) - 1
         /\ \A j \in 1 .. Len(Rest) : j \in 1 .. Len(open) /\ Rest[j] = open[j]
<1>1. Len(open) \in Nat \ {0}
  BY EmptySeq DEF OpenOK
<1>2. Top \in Build /\ Top.sig = decls[Top.id].sig /\ \A s \in Top.calls : SiteOK(s)
  BY <1>1, OpenElement DEF OpenOK, Top
<1>3. \A j \in 1 .. Len(open) - 1 : open[j] \in Build
  BY <1>1, OpenElement
<1> DEFINE n == Len(open) - 1
<1>4. n \in Nat
  BY <1>1
<1> HIDE DEF n
<1>5. /\ SubSeq(open, 1, n) \in Seq(Build)
      /\ Len(SubSeq(open, 1, n)) = IF 1 <= n THEN n - 1 + 1 ELSE 0
      /\ \A j \in 1 .. n - 1 + 1 : SubSeq(open, 1, n)[j] = open[1 + j - 1]
  <2>1. \A j \in 1 .. n : open[j] \in Build
    BY <1>3 DEF n
  <2> QED
    BY <1>4, <2>1, SubSeqProperties
<1>6. Rest = SubSeq(open, 1, n)
  BY DEF Rest, n
<1>7. Len(Rest) = n /\ \A j \in 1 .. n : Rest[j] = open[j]
  BY <1>4, <1>5, <1>6
<1> QED
  BY <1>1, <1>2, <1>5, <1>6, <1>7 DEF n

LEMMA EmitStep ==
  ASSUME JitInv, InBody, NEW site, SiteOK(site), Emit(site)
  PROVE  JitInv' /\ Keeps
<1> DEFINE b == [Top EXCEPT !.calls = @ \cup {site}]
<1>1. /\ phase' = phase /\ phase = "module" /\ symbols' = symbols /\ links' = links
      /\ builds' = builds /\ open' = Append(Rest, b) /\ open # <<>>
      /\ decls' = decls /\ code' = code /\ given' = given
  BY DEF Emit, InBody, module, client
<1>2. Keeps /\ DeclsOK' /\ CodeOK' /\ ClientOK' /\ AnswerTruthful'
  BY NothingNew DEF Emit
<1>3. /\ Len(open) \in Nat \ {0} /\ Top \in Build
      /\ Top.sig = decls[Top.id].sig /\ \A s \in Top.calls : SiteOK(s)
      /\ Rest \in Seq(Build) /\ Len(Rest) = Len(open) - 1
      /\ \A j \in 1 .. Len(Rest) : j \in 1 .. Len(open) /\ Rest[j] = open[j]
  BY <1>1, RestIsOpen DEF JitInv
<1>4. b \in Build /\ b.sig = decls[b.id].sig /\ \A s \in b.calls : SiteOK(s)
  BY <1>3 DEF Build, SiteOK
<1> HIDE DEF b
<1>5. /\ open' \in Seq(Build) /\ Len(open') = Len(Rest) + 1
      /\ \A j \in 1 .. Len(Rest) : open'[j] = Rest[j]
      /\ open'[Len(Rest) + 1] = b
  BY <1>1, <1>3, <1>4, AppendProperties
<1>6. open' \in Seq(Build')
  BY <1>2, <1>5, BuildKept, SeqMonotonic
<1>7. ASSUME NEW j \in 1 .. Len(open')
      PROVE  /\ open'[j].sig = decls'[open'[j].id].sig
             /\ \A s \in open'[j].calls : SiteOK(s)'
  <2>1. CASE j \in 1 .. Len(Rest)
    <3>1. j \in 1 .. Len(open) /\ open'[j] = open[j]
      BY <1>3, <1>5, <2>1
    <3> QED
      BY <1>1, <1>2, <3>1, SiteKept DEF JitInv, OpenOK
  <2>2. CASE j \notin 1 .. Len(Rest)
    <3>1. open'[j] = b
      BY <1>3, <1>5, <2>2
    <3> QED
      BY <1>1, <1>2, <1>4, <3>1, SiteKept
  <2> QED
    BY <2>1, <2>2
<1>8. OpenOK'
  BY <1>6, <1>7 DEF OpenOK
<1>9. LinksOK'
  BY <1>1, <1>2, LinksKept DEF JitInv
<1> QED
  BY <1>1, <1>2, <1>8, <1>9 DEF JitInv, CountsOK, SymbolsOK, FinalizeSafe

LEMMA EmitsCall ==
  ASSUME JitInv, \/ \E h \in Helper : CallHelper(h)
                 \/ \E id \in given : CallFunction(id)
  PROVE  JitInv' /\ Keeps
<1>1. ASSUME NEW h \in Helper, CallHelper(h)
      PROVE  JitInv' /\ Keeps
  <2> DEFINE site == [id |-> ids[h], helper |-> h, sig |-> HelperSig[h]]
  <2>1. InBody /\ ids[h] # NoId /\ Emit(site)
    BY <1>1 DEF CallHelper
  <2>2. SiteOK(site)
    BY <2>1, JitAssumption DEF JitInv, ClientOK, SiteOK, Site
  <2> QED
    BY <2>1, <2>2, EmitStep
<1>2. ASSUME NEW id \in given, CallFunction(id)
      PROVE  JitInv' /\ Keeps
  <2> DEFINE site == [id |-> id, helper |-> "none", sig |-> decls[id].sig]
  <2>1. InBody /\ Emit(site)
    BY <1>2 DEF CallFunction
  <2>2. id \in DOMAIN decls
    BY DEF JitInv, ClientOK, CodeOK
  <2>3. decls[id].sig \in Sig
    BY <2>2, DeclDomain DEF JitInv, Decl
  <2>4. SiteOK(site)
    BY <2>2, <2>3 DEF SiteOK, Site
  <2> QED
    BY <2>1, <2>4, EmitStep
<1> QED
  BY <1>1, <1>2

\* The body of the innermost build has returned: the function it is about is
\* compiled or refused, and the client hears what became of it.
LEMMA EndStep ==
  ASSUME JitInv, NEW valid \in BOOLEAN, NEW decodes \in BOOLEAN, End(valid, decodes)
  PROVE  JitInv' /\ Keeps
<1> DEFINE err == Refusal(Top.id, valid)
           told == IF err = "none" /\ Top.disasm /\ ~decodes THEN "Disasm" ELSE err
<1>1. /\ phase' = phase /\ phase = "module" /\ symbols' = symbols /\ links' = links
      /\ builds' = builds /\ open' = Rest /\ open # <<>> /\ decls' = decls /\ ids' = ids
      /\ code' = IF err # "none" THEN code
                 ELSE [id \in DOMAIN code \cup {Top.id} |->
                         IF id = Top.id THEN [sig |-> Top.sig, calls |-> Top.calls]
                         ELSE code[id]]
      /\ Answered(Top.id, told)
  BY DEF End, InBody
<1>2. /\ Len(open) \in Nat \ {0} /\ Top \in Build
      /\ Top.sig = decls[Top.id].sig /\ \A s \in Top.calls : SiteOK(s)
      /\ Rest \in Seq(Build) /\ Len(Rest) = Len(open) - 1
      /\ \A j \in 1 .. Len(Rest) : j \in 1 .. Len(open) /\ Rest[j] = open[j]
  BY <1>1, RestIsOpen DEF JitInv
<1>3. Top.id \in DOMAIN decls
  BY <1>2 DEF Build
<1>4. /\ err \in {"none", "InvalidImportDefinition", "DuplicateDefinition", "Compilation"}
      /\ err = "none" => Top.id \notin DOMAIN code /\ decls[Top.id].linkage # "Import"
      /\ err = "DuplicateDefinition" => Top.id \in DOMAIN code
      /\ err \in {"InvalidImportDefinition", "Compilation"} => Top.id \notin DOMAIN code
  BY DEF Refusal, JitInv, CodeOK
<1>5. told \in {"none", "Disasm", "InvalidImportDefinition", "DuplicateDefinition", "Compilation"}
  BY <1>4
<1>6. told \in {"none", "Disasm"} => err = "none"
  BY <1>4
<1>7. told \notin {"none", "Disasm"} => err = told
  BY <1>4
<1> HIDE DEF err, told
<1>8. /\ answer' = [id |-> Top.id, err |-> told]
      /\ given' = IF told = "none" THEN given \cup {Top.id} ELSE given
  BY <1>1 DEF Answered
<1>9. /\ DOMAIN code' = IF err = "none" THEN DOMAIN code \cup {Top.id} ELSE DOMAIN code
      /\ \A id \in DOMAIN code : code'[id] = code[id]
      /\ err = "none" => code'[Top.id] = [sig |-> Top.sig, calls |-> Top.calls]
  BY <1>1, <1>4
<1>10. Keeps
  BY <1>1, <1>8, <1>9 DEF Keeps
<1>11. DeclsOK' /\ SymbolsOK' /\ CountsOK' /\ FinalizeSafe'
  BY <1>1 DEF JitInv, DeclsOK, SymbolsOK, CountsOK, FinalizeSafe
<1>12. CodeOK'
  <2>1. DOMAIN code' \subseteq DOMAIN decls'
    BY <1>1, <1>3, <1>9 DEF JitInv, CodeOK
  <2>2. ASSUME NEW id \in DOMAIN code'
        PROVE  /\ decls'[id].linkage # "Import" /\ code'[id].sig = decls'[id].sig
               /\ \A s \in code'[id].calls : SiteOK(s)'
    <3>1. CASE id \in DOMAIN code
      BY <1>1, <1>9, <1>10, <3>1, SiteKept DEF JitInv, CodeOK
    <3>2. CASE id \notin DOMAIN code
      <4>1. err = "none" /\ id = Top.id
        BY <1>9, <3>2
      <4> QED
        BY <1>1, <1>2, <1>4, <1>9, <1>10, <4>1, SiteKept
    <3> QED
      BY <3>1, <3>2
  <2> QED
    BY <2>1, <2>2 DEF CodeOK
<1>13. OpenOK'
  BY <1>1, <1>2, <1>10, BuildsKept DEF JitInv
<1>14. LinksOK'
  <2>1. ASSUME NEW id \in DOMAIN links, NEW s \in DOMAIN links[id]
        PROVE  LinkOK(s, links[id][s])'
    BY <1>1, <1>9 DEF JitInv, LinksOK, LinkOK
  <2> QED
    BY <1>1, <1>9, <2>1 DEF JitInv, LinksOK
<1>15. ClientOK'
  <2>1. given' \subseteq DOMAIN code'
    BY <1>6, <1>8, <1>9 DEF JitInv, ClientOK
  <2>2. answer'.id \in DOMAIN decls' \cup {NoId} /\ (answer'.err = "none" => answer'.id \in given')
    BY <1>1, <1>3, <1>8
  <2> QED
    BY <1>1, <2>1, <2>2 DEF JitInv, ClientOK
<1>16. AnswerTruthful'
  BY <1>4, <1>5, <1>6, <1>7, <1>8, <1>9 DEF AnswerTruthful
<1> QED
  BY <1>10, <1>11, <1>12, <1>13, <1>14, <1>15, <1>16 DEF JitInv

\* A site that cannot be linked is the call of a helper nobody registered.
LEMMA TargetFound ==
  ASSUME JitInv, NEW s, SiteOK(s)
  PROVE  IF Target(s.id).kind = "unresolved"
         THEN s.helper # "none" /\ HelperName[s.helper] \notin DOMAIN symbols \cup ProcessSymbol
         ELSE LinkOK(s, Target(s.id))
<1>1. CASE s.id \in DOMAIN code
  BY <1>1 DEF Target, LinkOK
<1>2. CASE s.id \notin DOMAIN code /\ decls[s.id].name \in DOMAIN symbols
  BY <1>2 DEF Target, LinkOK, JitInv, SymbolsOK
<1>3. CASE s.id \notin DOMAIN code /\ decls[s.id].name \notin DOMAIN symbols
  BY <1>3 DEF Target, LinkOK, SiteOK, JitInv, ClientOK
<1> QED
  BY <1>1, <1>2, <1>3

LEMMA FinalizeStep ==
  ASSUME JitInv, Finalize
  PROVE  JitInv' /\ Keeps
<1>1. /\ symbols' = symbols /\ decls' = decls /\ code' = code /\ open' = open
      /\ builds' = builds /\ phase = "module"
  BY DEF Finalize, module
<1>2. Keeps /\ DeclsOK' /\ CodeOK' /\ ClientOK' /\ AnswerTruthful'
  BY NothingNew DEF Finalize
<1>3. OpenOK' /\ SymbolsOK'
  BY <1>1, <1>2, OpenKept DEF JitInv, SymbolsOK
<1>4. \A s \in PendingSites : SiteOK(s)
  BY DEF PendingSites, Pending, JitInv, CodeOK
<1>5. CASE \E s \in PendingSites : Target(s.id).kind = "unresolved"
  <2>1. phase' = "unresolved" /\ links' = links
    BY <1>5 DEF Finalize
  <2>2. PICK s \in PendingSites : Target(s.id).kind = "unresolved"
    BY <1>5
  <2>3. s.helper # "none" /\ HelperName[s.helper] \notin DOMAIN symbols \cup ProcessSymbol
    BY <1>4, <2>2, TargetFound
  <2>4. PendingSites' = PendingSites
    BY <1>1, <2>1 DEF PendingSites, Pending
  <2>5. FinalizeSafe'
    BY <1>1, <2>2, <2>3, <2>4 DEF FinalizeSafe
  <2>6. LinksOK'
    BY <1>2, <1>1, <2>1, LinksKept DEF JitInv
  <2> QED
    BY <1>1, <1>2, <1>3, <2>1, <2>5, <2>6 DEF JitInv, CountsOK
<1>6. CASE ~ \E s \in PendingSites : Target(s.id).kind = "unresolved"
  <2>1. /\ phase' = phase
        /\ links' = [id \in DOMAIN code |->
                       IF id \in DOMAIN links THEN links[id]
                       ELSE [s \in code[id].calls |-> Target(s.id)]]
    BY <1>6 DEF Finalize
  <2>2. ASSUME NEW id \in DOMAIN code
        PROVE  /\ DOMAIN links'[id] = code[id].calls
               /\ \A s \in DOMAIN links'[id] : LinkOK(s, links'[id][s])
    <3>1. CASE id \in DOMAIN links
      BY <2>1, <3>1 DEF JitInv, LinksOK
    <3>2. CASE id \notin DOMAIN links
      <4>1. links'[id] = [s \in code[id].calls |-> Target(s.id)]
        BY <2>1, <3>2
      <4>2. \A s \in code[id].calls : s \in PendingSites
        BY <3>2 DEF PendingSites, Pending
      <4> QED
        BY <1>4, <1>6, <4>1, <4>2, TargetFound
    <3> QED
      BY <3>1, <3>2
  <2>3. DOMAIN links' = DOMAIN code
    BY <2>1
  <2>4. LinksOK'
    BY <1>1, <2>2, <2>3 DEF LinksOK, LinkOK
  <2> QED
    BY <1>1, <1>2, <1>3, <2>1, <2>4 DEF JitInv, CountsOK, FinalizeSafe
<1> QED
  BY <1>5, <1>6

LEMMA JitStep ==
  ASSUME JitInv, [Next]_vars
  PROVE  JitInv' /\ Keeps
<1>1. CASE \E h \in Helper : Register(h) \/ TryDeclare(h) \/ Declare(h) \/ CallHelper(h)
  BY <1>1, RegisterStep, TryDeclareStep, DeclareStep, EmitsCall
<1>2. CASE NewModule
  BY <1>2, NewModuleStep
<1>3. CASE \E id \in given : CallFunction(id)
  BY <1>3, EmitsCall
<1>4. CASE BeginBuild
  <2>1. BuildLinkage \subseteq Linkages
    BY JitAssumption
  <2> QED
    BY <1>4, <2>1, BeginStep DEF BeginBuild
<1>5. CASE EndBuild
  <2>1. ArchKnown \in BOOLEAN
    BY JitAssumption
  <2> QED
    BY <1>5, <2>1, EndStep DEF EndBuild
<1>6. CASE Finalize
  BY <1>6, FinalizeStep
<1>7. CASE UNCHANGED vars
  <2>1. /\ phase' = phase /\ symbols' = symbols /\ module' = module /\ links' = links
        /\ open' = open /\ client' = client /\ builds' = builds
    BY <1>7 DEF vars
  <2>2. Keeps /\ DeclsOK' /\ CodeOK' /\ ClientOK' /\ AnswerTruthful'
    BY <2>1, NothingNew
  <2>3. OpenOK' /\ LinksOK'
    BY <2>1, <2>2, OpenKept, LinksKept DEF JitInv, module
  <2>4. PendingSites' = PendingSites
    BY <2>1 DEF PendingSites, Pending, module
  <2> QED
    BY <2>1, <2>2, <2>3, <2>4 DEF JitInv, SymbolsOK, CountsOK, FinalizeSafe
<1> QED
  BY <1>1, <1>2, <1>3, <1>4, <1>5, <1>6, <1>7 DEF Next

\* Linked code is not linked again.
LEMMA LinksStay ==
  ASSUME JitInv, [Next]_vars
  PROVE  DOMAIN links \subseteq DOMAIN links' /\ \A id \in DOMAIN links : links'[id] = links[id]
<1>1. CASE Finalize
  BY <1>1 DEF Finalize, JitInv, LinksOK
<1>2. CASE ~Finalize
  <2>1. links' = links
    BY <1>2 DEF Next, vars, Register, TryDeclare, Declare, CallHelper, CallFunction, Emit,
       NewModule, BeginBuild, Begin, EndBuild, End
  <2> QED
    BY <2>1
<1> QED
  BY <1>1, <1>2

LEMMA JitInit ==
  ASSUME Init
  PROVE  JitInv
<1>1. DeclsOK /\ OpenOK
  BY EmptySeq DEF Init, DeclsOK, OpenOK
<1>2. SymbolsOK /\ CodeOK /\ LinksOK
  BY DEF Init, SymbolsOK, CodeOK, LinksOK
<1>3. ClientOK /\ CountsOK
  BY JitAssumption DEF Init, ClientOK, CountsOK
<1>4. AnswerTruthful /\ FinalizeSafe
  BY DEF Init, AnswerTruthful, FinalizeSafe
<1> QED
  BY <1>1, <1>2, <1>3, <1>4 DEF JitInv

LEMMA JitInvariant == Spec => []JitInv
<1>1. Init => JitInv
  BY JitInit
<1>2. JitInv /\ [Next]_vars => JitInv'
  BY JitStep
<1> QED
  BY <1>1, <1>2, PTL DEF Spec

LEMMA JitInvTypes ==
  ASSUME JitInv
  PROVE  TypeOK
<1>1. \A id \in DOMAIN code : code[id].sig \in Sig /\ code[id].calls \subseteq Site
  <2>1. ASSUME NEW id \in DOMAIN code
        PROVE  code[id].sig \in Sig
    <3>1. id \in DOMAIN decls /\ code[id].sig = decls[id].sig
      BY DEF JitInv, CodeOK
    <3> QED
      BY <3>1, DeclDomain DEF JitInv, Decl
  <2> QED
    BY <2>1 DEF JitInv, CodeOK, SiteOK
<1>2. \A j \in DOMAIN open : open[j].id \in DOMAIN decls /\ open[j].calls \subseteq Site
  <2>1. DOMAIN open = 1 .. Len(open)
    BY LenProperties DEF JitInv, OpenOK
  <2> QED
    BY <2>1, OpenElement DEF JitInv, Build
<1>3. decls \in Seq([name : Name, linkage : Linkages, sig : Sig])
  BY DEF JitInv, DeclsOK, Decl
<1>4. given \subseteq DOMAIN decls /\ DOMAIN links \subseteq DOMAIN code
  BY DEF JitInv, ClientOK, CodeOK, LinksOK
<1>5. ids \in [Helper -> DOMAIN decls \cup {NoId}] /\ DOMAIN code \subseteq DOMAIN decls
  BY DEF JitInv, ClientOK, CodeOK
<1>6. DOMAIN symbols \subseteq Name /\ \A name \in DOMAIN symbols : symbols[name] \in Helper
  BY DEF JitInv, SymbolsOK
<1> QED
  BY <1>1, <1>2, <1>3, <1>4, <1>5, <1>6 DEF TypeOK, JitInv, CountsOK

\* A site was linked to a symbol of the process only for want of a registered
\* one; registration is over by then.
OutsideOK ==
  /\ phase = "builder" => DOMAIN links = {}
  /\ \A id \in DOMAIN links : \A s \in DOMAIN links[id] :
       links[id][s].kind = "process" => decls[s.id].name \notin DOMAIN symbols

LEMMA OutsideStep ==
  ASSUME JitInv, OutsideOK, Next
  PROVE  OutsideOK'
<1>0. ASSUME NEW id \in DOMAIN links, NEW s \in DOMAIN links[id]
      PROVE  s.id \in DOMAIN decls /\ decls'[s.id].name = decls[s.id].name
  <2>1. s.id \in DOMAIN decls
    BY DEF JitInv, LinksOK, CodeOK, SiteOK, Site
  <2> QED
    BY <2>1, JitStep DEF Keeps
<1>1. CASE \E h \in Helper : Register(h)
  BY <1>1 DEF Register, OutsideOK
<1>2. CASE Finalize
  <2>1. phase' # "builder" /\ decls' = decls /\ symbols' = symbols
    BY <1>2 DEF Finalize, module
  <2>2. CASE links' = links
    BY <2>1, <2>2 DEF OutsideOK
  <2>3. CASE links' = [id \in DOMAIN code |->
                         IF id \in DOMAIN links THEN links[id]
                         ELSE [s \in code[id].calls |-> Target(s.id)]]
    <3>1. ASSUME NEW id \in DOMAIN links', NEW s \in DOMAIN links'[id],
                 links'[id][s].kind = "process"
          PROVE  decls[s.id].name \notin DOMAIN symbols
      <4>1. CASE id \in DOMAIN links
        BY <2>3, <3>1, <4>1 DEF OutsideOK
      <4>2. CASE id \notin DOMAIN links
        <5>1. links'[id][s] = Target(s.id)
          BY <2>3, <4>2
        <5> QED
          BY <3>1, <5>1 DEF Target
      <4> QED
        BY <4>1, <4>2
    <3> QED
      BY <2>1, <3>1 DEF OutsideOK
  <2> QED
    BY <1>2, <2>2, <2>3 DEF Finalize
<1>3. CASE ~Finalize /\ ~\E h \in Helper : Register(h)
  <2>1. links' = links /\ symbols' = symbols /\ phase' # "builder"
    BY <1>3 DEF Next, TryDeclare, Declare, CallHelper, CallFunction, Emit, InBody,
       NewModule, BeginBuild, Begin, EndBuild, End
  <2> QED
    BY <1>0, <2>1 DEF OutsideOK
<1> QED
  BY <1>1, <1>2, <1>3

LEMMA OutsideInvariant == Spec => []OutsideOK
<1>1. Init => OutsideOK
  BY DEF Init, OutsideOK
<1>2. OutsideOK /\ UNCHANGED vars => OutsideOK'
  BY DEF OutsideOK, vars, module
<1>3. JitInv /\ OutsideOK /\ [Next]_vars => OutsideOK'
  BY <1>2, OutsideStep
<1> QED
  BY <1>1, <1>3, JitInvariant, PTL DEF Spec

LEMMA JitInvAgrees ==
  ASSUME JitInv, OutsideOK
  PROVE  CallsAgree
<1> SUFFICES ASSUME NEW id \in DOMAIN links, NEW s \in DOMAIN links[id],
                    NEW t, t = links[id][s]
             PROVE  /\ t.kind # "unresolved"
                    /\ t.kind = "jit" => code[t.of].sig = s.sig
                    /\ (s.helper # "none" /\
                        \A h \in Helper \ {s.helper} : HelperName[h] # HelperName[s.helper]) =>
                          \/ t = [kind |-> "host", of |-> s.helper]
                          \/ t.kind = "jit" /\ decls[t.of].name = HelperName[s.helper]
                          \/ /\ t.kind = "process"
                             /\ HelperName[s.helper] \in ProcessSymbol \ DOMAIN symbols
  BY DEF CallsAgree
<1>1. LinkOK(s, t) /\ SiteOK(s)
  BY DEF JitInv, LinksOK, CodeOK
<1>2. CASE t = [kind |-> "jit", of |-> s.id] /\ s.id \in DOMAIN code
  BY <1>1, <1>2 DEF SiteOK, JitInv, CodeOK
<1>3. CASE \E h \in Helper : t = [kind |-> "host", of |-> h] /\ HelperName[h] = decls[s.id].name
  BY <1>1, <1>3 DEF SiteOK
<1>4. CASE t = [kind |-> "process", of |-> NoId] /\ decls[s.id].name \in ProcessSymbol
  <2>1. t.kind = "process"
    BY <1>4
  <2>2. decls[s.id].name \notin DOMAIN symbols
    BY <2>1 DEF OutsideOK
  <2> QED
    BY <1>1, <1>4, <2>1, <2>2 DEF SiteOK
<1> QED
  BY <1>1, <1>2, <1>3, <1>4 DEF LinkOK

(***************************************************************************)
(* The theorems                                                             *)
(***************************************************************************)
\* Every FuncId that declarations, code, links, open builds, call sites and
\* the client hold is that of a declaration, and every call site is typed.
THEOREM JitTypes == Spec => []TypeOK
BY JitInvariant, JitInvTypes, PTL

\* Whatever is built inside of a body, under the same name too, the result of
\* define_function tells whether the function is now defined.
THEOREM AnswersAreTrue == Spec => []AnswerTruthful
<1>1. JitInv => AnswerTruthful
  BY DEF JitInv
<1> QED
  BY <1>1, JitInvariant, PTL

\* finalize_definitions panics on nothing but a helper that was never
\* registered and is no symbol of the process: all code a body calls is there.
THEOREM FinalizeCannotMiss == Spec => []FinalizeSafe
<1>1. JitInv => FinalizeSafe
  BY DEF JitInv
<1> QED
  BY <1>1, JitInvariant, PTL

\* Each linked call was compiled for the signature of what it reaches, and a
\* registered helper with a NAME of its own reaches itself or what was built
\* under it, whatever has that name in the process.
THEOREM LinkedCallsAgree == Spec => []CallsAgree
BY JitInvariant, OutsideInvariant, JitInvAgrees, PTL

\* A FuncId keeps its signature, code stays compiled and linked as it was,
\* and the client can go on using the ids it was given.
THEOREM PromisesKept == Spec => NothingTakenBack
<1>1. JitInv /\ [Next]_vars => [Grows]_vars
  BY JitStep, LinksStay DEF Keeps, Grows
<1> QED
  BY <1>1, JitInvariant, PTL DEF Spec, NothingTakenBack

(***************************************************************************)
(* The module on its way to the blocking pool: the inductive invariant      *)
(***************************************************************************)
Gone == {"cancelled", "panicked", "finished"}

\* Where the module is, given what the task and the closure are doing.
PlaceOK ==
  /\ task \in {"free", "future", "awaiting"} \cup Gone
  /\ holder \in {"main", "future", "closure", "result", "dropped"}
  /\ job \in {"none", "queued", "running", "returned", "panicked"}
  /\ task = "free" => holder = "main" /\ job = "none"
  /\ task = "future" => holder = "future" /\ job = "none"
  /\ task = "awaiting" => job # "none"
  /\ task \in Gone => holder \in {"closure", "dropped"} /\ job \in {"none", "queued", "running"}
  /\ holder = "closure" <=> job \in {"queued", "running"}
  /\ holder = "result" <=> job = "returned"
  /\ job = "panicked" => holder = "dropped"

States  == {"idle", "worker", "queued", "running", "blocked", "waking", "served"}
PoolJob == {<<"build">>} \cup ({"call", "wake"} \X CallId)

\* A job waits for a thread once, and what it belongs to waits for it.
QueueOK ==
  /\ queue \in Seq(PoolJob)
  /\ \A i, j \in 1 .. Len(queue) : queue[i] = queue[j] => i = j
  /\ \A i \in 1 .. Len(queue) :
       /\ queue[i] = <<"build">> => job = "queued"
       /\ \A c \in CallId :
            /\ queue[i] = <<"call", c>> => calls[c].state = "queued"
            /\ queue[i] = <<"wake", c>> => calls[c].state = "blocked"

CallsOK ==
  /\ calls \in [CallId -> [of : {Old} \cup DOMAIN links, state : States]]
  /\ ptrs \subseteq DOMAIN links

ThreadsOK == Threads <= PoolSize

SpawnInv ==
  /\ PlaceOK /\ QueueOK /\ CallsOK /\ ThreadsOK
  /\ HandedBackWhole /\ CodeOutlivesCalls

(***************************************************************************)
(* The composition: the module lives as JitModule says                      *)
(***************************************************************************)
LEMMA SpawnJit ==
  ASSUME [SpawnNext]_tvars
  PROVE  [Next]_vars
<1>1. CASE Prepare
  BY <1>1 DEF Prepare, Next
<1>2. CASE ClosureStep
  <2>1. CASE Define
    BY <2>1 DEF Define, BeginBuild, EndBuild, Next
  <2>2. CASE \/ \E h \in Helper : TryDeclare(h) \/ Declare(h) \/ CallHelper(h)
             \/ \E id \in given : CallFunction(id)
             \/ Finalize
    BY <2>2 DEF Next
  <2> QED
    BY <1>2, <2>1, <2>2 DEF ClosureStep
<1>3. CASE ~(Prepare \/ ClosureStep)
  <2>1. UNCHANGED vars
    BY <1>3 DEF SpawnNext, Closure, CallStep, tvars, Spawn, Poll, Cancel, Resume, DropModule,
       Dispatch, ClosureReturns, ClosurePanics, Call, BlockOn, Wake, CallReturns
  <2> QED
    BY <2>1
<1> QED
  BY <1>1, <1>2, <1>3

\* Whatever the task, the closure and the pool do, the module goes through
\* steps of JitModule only: its theorems hold of a module built in the
\* background.
THEOREM SpawnedModuleIsModule == SpawnSpec => Spec
<1>1. SpawnInit => Init
  BY DEF SpawnInit
<1>2. [SpawnNext]_tvars => [Next]_vars
  BY SpawnJit
<1> QED
  BY <1>1, <1>2, PTL DEF SpawnSpec, Spec

(***************************************************************************)
(* The place of the module                                                  *)
(***************************************************************************)
\* The head of the queue, and what its dispatch changes.
LEMMA DispatchHead ==
  ASSUME SpawnInv, Dispatch
  PROVE  /\ Len(queue) \in Nat \ {0} /\ Head(queue) = queue[1] /\ queue[1] \in PoolJob
         /\ Tail(queue) \in Seq(PoolJob) /\ Len(Tail(queue)) = Len(queue) - 1
         /\ \A i \in 1 .. Len(Tail(queue)) :
              i + 1 \in 1 .. Len(queue) /\ i + 1 # 1 /\ Tail(queue)[i] = queue[i + 1]
         /\ \/ /\ queue[1] = <<"build">> /\ job = "queued"
               /\ job' = "running" /\ calls' = calls
            \/ \E c \in CallId :
                 /\ \/ queue[1] = <<"call", c>> /\ calls[c].state = "queued" /\ Set(c, "running")
                    \/ queue[1] = <<"wake", c>> /\ calls[c].state = "blocked" /\ Set(c, "waking")
                 /\ job' = job
<1>1. queue # <<>> /\ queue \in Seq(PoolJob)
  BY DEF Dispatch, SpawnInv, QueueOK
<1>2. Len(queue) \in Nat \ {0}
  BY <1>1, EmptySeq
<1>3. /\ Tail(queue) \in Seq(PoolJob) /\ Len(Tail(queue)) = Len(queue) - 1
      /\ \A i \in 1 .. Len(Tail(queue)) : Tail(queue)[i] = queue[i + 1]
  BY <1>1, HeadTailProperties
<1>4. Head(queue) = queue[1] /\ queue[1] \in PoolJob
  BY <1>1, <1>2, ElementOfSeq
<1>5. CASE queue[1] = <<"build">>
  BY <1>2, <1>4, <1>5 DEF Dispatch, SpawnInv, QueueOK
<1>6. CASE queue[1] # <<"build">>
  <2>1. PICK k \in {"call", "wake"}, c \in CallId : queue[1] = <<k, c>>
    BY <1>4, <1>6 DEF PoolJob
  <2>2. Set(c, IF k = "call" THEN "running" ELSE "waking") /\ job' = job
    BY <1>4, <1>6, <2>1 DEF Dispatch
  <2>3. 1 \in 1 .. Len(queue)
    BY <1>2
  <2>4. calls[c].state = IF k = "call" THEN "queued" ELSE "blocked"
    BY <2>1, <2>3 DEF SpawnInv, QueueOK
  <2> QED
    BY <1>2, <1>3, <1>4, <2>1, <2>2, <2>4
<1> QED
  BY <1>2, <1>3, <1>4, <1>5, <1>6

LEMMA PlaceNext ==
  ASSUME SpawnInv, [SpawnNext]_tvars
  PROVE  PlaceOK'
<1> USE DEF SpawnInv, PlaceOK, Gone
<1>1. CASE Prepare
  BY <1>1 DEF Prepare, async
<1>2. CASE Spawn \/ Poll \/ DropModule
  BY <1>2 DEF Spawn, Poll, DropModule
<1>3. CASE Cancel
  BY <1>3 DEF Cancel
<1>4. CASE Resume
  BY <1>4 DEF Resume
<1>5. CASE Dispatch
  <2>1. \/ job' = job
        \/ job = "queued" /\ job' = "running"
    BY <1>5, DispatchHead
  <2> QED
    BY <1>5, <2>1 DEF Dispatch
<1>6. CASE Closure
  BY <1>6 DEF Closure, ClosureStep, ClosureReturns, ClosurePanics, Running, async
<1>7. CASE \E c \in CallId : Call(c) \/ CallStep(c)
  BY <1>7 DEF Call, CallStep, BlockOn, Wake, CallReturns, async
<1>8. CASE UNCHANGED tvars
  BY <1>8 DEF tvars, async
<1> QED
  BY <1>1, <1>2, <1>3, <1>4, <1>5, <1>6, <1>7, <1>8 DEF SpawnNext

LEMMA WholeNext ==
  ASSUME SpawnInv, [SpawnNext]_tvars
  PROVE  HandedBackWhole'
<1> USE DEF SpawnInv, PlaceOK, HandedBackWhole
<1>1. CASE Prepare
  <2>1. holder = "main" /\ open = <<>>
    BY <1>1 DEF Prepare
  <2>2. open' = <<>>
    BY <1>1, <2>1 DEF Prepare, Register, Declare, NewModule
  <2> QED
    BY <1>1, <2>2 DEF Prepare, async
<1>2. CASE ClosureStep
  BY <1>2 DEF ClosureStep, Running, async
<1>3. CASE ClosureReturns \/ ClosurePanics
  BY <1>3 DEF ClosureReturns, ClosurePanics, vars
<1>4. CASE \/ Spawn \/ Poll \/ Cancel \/ Resume \/ DropModule \/ Dispatch
           \/ \E c \in CallId : Call(c) \/ CallStep(c)
           \/ UNCHANGED tvars
  <2>1. open' = open /\ phase' = phase
    BY <1>4 DEF Spawn, Poll, Cancel, Resume, DropModule, Dispatch, Call, CallStep, BlockOn,
       Wake, CallReturns, tvars, vars
  <2>2. holder' \in {"main", "future", "result"} => holder \in {"main", "future", "result"}
    BY <1>4 DEF Spawn, Poll, Cancel, Resume, DropModule, Dispatch, Call, CallStep, BlockOn,
       Wake, CallReturns, tvars, async
  <2> QED
    BY <2>1, <2>2
<1> QED
  BY <1>1, <1>2, <1>3, <1>4 DEF SpawnNext, Closure

(***************************************************************************)
(* Calls, the queue and the threads                                         *)
(***************************************************************************)
\* What a step does to the calls.
CallsStep ==
  \/ calls' = calls
  \/ \E c \in CallId :
       \/ \E s \in States \ {"idle"} : calls[c].state # "idle" /\ Set(c, s)
       \/ calls' = [calls EXCEPT ![c] = NoCall]
       \/ \E id \in Callable, s \in {"queued", "worker"} :
            /\ calls[c].state = "idle"
            /\ calls' = [calls EXCEPT ![c] = [of |-> id, state |-> s]]

LEMMA CallsSteps ==
  ASSUME SpawnInv, [SpawnNext]_tvars
  PROVE  CallsStep
<1>1. CASE Dispatch
  <2>1. CASE calls' = calls
    BY <2>1 DEF CallsStep
  <2>2. CASE calls' # calls
    <3>1. \E c \in CallId : \/ calls[c].state = "queued" /\ Set(c, "running")
                            \/ calls[c].state = "blocked" /\ Set(c, "waking")
      BY <1>1, <2>2, DispatchHead
    <3> QED
      BY <3>1 DEF CallsStep, States
  <2> QED
    BY <2>1, <2>2
<1>2. ASSUME NEW c \in CallId, Call(c)
      PROVE  CallsStep
  BY <1>2 DEF Call, CallsStep
<1>3. ASSUME NEW c \in CallId, BlockOn(c) \/ Wake(c) \/ CallReturns(c)
      PROVE  CallsStep
  BY <1>3 DEF BlockOn, Wake, CallReturns, CallsStep, States
<1>4. CASE ~(Dispatch \/ \E c \in CallId : Call(c) \/ CallStep(c))
  BY <1>4 DEF SpawnNext, Prepare, Spawn, Poll, Cancel, Resume, DropModule, Closure,
     ClosureStep, ClosureReturns, ClosurePanics, tvars, pool, CallsStep
<1> QED
  BY <1>1, <1>2, <1>3, <1>4 DEF CallStep

LEMMA CallsNext ==
  ASSUME SpawnInv, JitInv, [SpawnNext]_tvars
  PROVE  CallsOK'
<1>1. DOMAIN links \subseteq DOMAIN links'
  BY SpawnJit, LinksStay
<1>2. calls' \in [CallId -> [of : {Old} \cup DOMAIN links, state : States]]
  <2>1. NoCall \in [of : {Old} \cup DOMAIN links, state : States]
    BY DEF NoCall, States
  <2>2. \A id \in Callable, s \in {"queued", "worker"} :
          [of |-> id, state |-> s] \in [of : {Old} \cup DOMAIN links, state : States]
    BY DEF Callable, SpawnInv, CallsOK, States
  <2>3. \A c \in CallId, s \in States :
          [calls EXCEPT ![c].state = s] \in [CallId -> [of : {Old} \cup DOMAIN links, state : States]]
    BY DEF SpawnInv, CallsOK
  <2> QED
    BY <2>1, <2>2, <2>3, CallsSteps DEF SpawnInv, CallsOK, CallsStep, Set
<1>3. ptrs' \subseteq DOMAIN links'
  <2>1. ptrs' = ptrs \/ (ptrs' = DOMAIN links /\ UNCHANGED vars)
    BY DEF SpawnNext, Prepare, Spawn, Poll, Cancel, Resume, DropModule, Dispatch, Closure,
       ClosureStep, ClosureReturns, ClosurePanics, Call, CallStep, BlockOn, Wake,
       CallReturns, tvars
  <2> QED
    BY <1>1, <2>1 DEF SpawnInv, CallsOK
<1> QED
  BY <1>1, <1>2, <1>3 DEF CallsOK

\* A call of the module's code keeps the module with the task.
LEMMA OutlivesNext ==
  ASSUME SpawnInv, JitInv, [SpawnNext]_tvars
  PROVE  CodeOutlivesCalls'
<1>1. DOMAIN links \subseteq DOMAIN links'
  BY SpawnJit, LinksStay
<1> SUFFICES ASSUME NEW c \in CallId, calls'[c].state # "idle", calls'[c].of # Old
             PROVE  holder' = "main" /\ calls'[c].of \in DOMAIN links'
  BY DEF CodeOutlivesCalls, InFlight
<1>2. \/ calls[c].state # "idle" /\ calls'[c].of = calls[c].of
      \/ calls'[c].of \in Callable /\ calls' # calls
  BY CallsSteps DEF CallsStep, Set, NoCall, SpawnInv, CallsOK
<1>3. CASE calls[c].state # "idle" /\ calls'[c].of = calls[c].of
  <2>1. c \in InFlight /\ holder = "main" /\ calls[c].of \in DOMAIN links /\ ~Quiet
    BY <1>3 DEF SpawnInv, CodeOutlivesCalls, InFlight, Quiet
  <2>2. holder' = "main"
    BY <2>1 DEF SpawnInv, PlaceOK, SpawnNext, Prepare, Spawn, Poll, Cancel, Resume, DropModule,
       Dispatch, Closure, ClosureStep, ClosureReturns, ClosurePanics, Running, Call, CallStep,
       BlockOn, Wake, CallReturns, tvars, async
  <2> QED
    BY <1>1, <1>3, <2>1, <2>2
<1>4. CASE calls'[c].of \in Callable /\ calls' # calls
  <2>1. task = "free" /\ calls'[c].of \in ptrs
    BY <1>4 DEF Callable
  <2>2. holder = "main" /\ calls'[c].of \in DOMAIN links
    BY <2>1 DEF SpawnInv, PlaceOK, CallsOK
  <2>3. holder' = holder
    BY <1>4, <2>1, <2>2 DEF SpawnInv, PlaceOK, SpawnNext, Prepare, Spawn, Poll, Cancel, Resume,
       DropModule, Dispatch, Closure, ClosureStep, ClosureReturns, ClosurePanics, Running, Call,
       CallStep, BlockOn, Wake, CallReturns, tvars, async, pool
  <2> QED
    BY <1>1, <2>2, <2>3
<1> QED
  BY <1>2, <1>3, <1>4

\* A queue with some of the old jobs, each once, whose owners have not moved.
LEMMA QueueKept ==
  ASSUME QueueOK, NEW q \in Seq(PoolJob), queue' = q,
         \A i, j \in 1 .. Len(q) : q[i] = q[j] => i = j,
         \A i \in 1 .. Len(q) :
           /\ q[i] = <<"build">> => job' = "queued"
           /\ \A c \in CallId :
                /\ q[i] = <<"call", c>> => calls'[c].state = "queued"
                /\ q[i] = <<"wake", c>> => calls'[c].state = "blocked"
  PROVE  QueueOK'
BY DEF QueueOK, PoolJob

LEMMA QueueAppend ==
  ASSUME QueueOK, NEW e \in PoolJob, \A i \in 1 .. Len(queue) : queue[i] # e
  PROVE  /\ Append(queue, e) \in Seq(PoolJob) /\ Len(queue) \in Nat
         /\ Len(Append(queue, e)) = Len(queue) + 1
         /\ \A i \in 1 .. Len(queue) : Append(queue, e)[i] = queue[i]
         /\ Append(queue, e)[Len(queue) + 1] = e
         /\ \A i, j \in 1 .. Len(queue) + 1 : Append(queue, e)[i] = Append(queue, e)[j] => i = j
<1>1. /\ Append(queue, e) \in Seq(PoolJob) /\ Len(queue) \in Nat
      /\ Len(Append(queue, e)) = Len(queue) + 1
      /\ \A i \in 1 .. Len(queue) : Append(queue, e)[i] = queue[i]
      /\ Append(queue, e)[Len(queue) + 1] = e
  BY AppendProperties, LenProperties DEF QueueOK
<1>2. \A i, j \in 1 .. Len(queue) : queue[i] = queue[j] => i = j
  BY DEF QueueOK
<1>3. \A i \in 1 .. Len(queue) + 1 : i \in 1 .. Len(queue) \/ i = Len(queue) + 1
  BY <1>1
<1>4. ASSUME NEW i \in 1 .. Len(queue) + 1, NEW j \in 1 .. Len(queue) + 1,
             Append(queue, e)[i] = Append(queue, e)[j]
      PROVE  i = j
  BY <1>1, <1>2, <1>3, <1>4
<1> QED
  BY <1>1, <1>4

\* A call that was not waiting starts to wait for a thread.
LEMMA CallQueued ==
  ASSUME QueueOK, NEW c \in CallId, NEW kind \in {"call", "wake"},
         calls[c].state \notin {"queued", "blocked"},
         queue' = Append(queue, <<kind, c>>), job' = job,
         calls'[c].state = IF kind = "call" THEN "queued" ELSE "blocked",
         \A b \in CallId \ {c} : calls'[b] = calls[b]
  PROVE  QueueOK'
<1> DEFINE e == <<kind, c>>
           q == Append(queue, e)
<1>1. \A i \in 1 .. Len(queue) : queue[i] # <<"call", c>> /\ queue[i] # <<"wake", c>>
  BY DEF QueueOK
<1>2. e \in PoolJob
  BY DEF PoolJob
<1>3. \A i \in 1 .. Len(queue) : queue[i] # e
  BY <1>1
<1>4. /\ q \in Seq(PoolJob) /\ Len(queue) \in Nat /\ Len(q) = Len(queue) + 1
      /\ \A i \in 1 .. Len(queue) : q[i] = queue[i]
      /\ q[Len(queue) + 1] = e
      /\ \A i, j \in 1 .. Len(q) : q[i] = q[j] => i = j
  BY <1>2, <1>3, QueueAppend
<1> HIDE DEF q
<1>5. ASSUME NEW i \in 1 .. Len(q)
      PROVE  /\ q[i] = <<"build">> => job' = "queued"
             /\ \A b \in CallId :
                  /\ q[i] = <<"call", b>> => calls'[b].state = "queued"
                  /\ q[i] = <<"wake", b>> => calls'[b].state = "blocked"
  <2>1. CASE i \in 1 .. Len(queue)
    <3>1. /\ q[i] = <<"build">> => job = "queued"
          /\ \A b \in CallId :
               /\ q[i] = <<"call", b>> => calls[b].state = "queued"
               /\ q[i] = <<"wake", b>> => calls[b].state = "blocked"
      BY <1>4, <2>1 DEF QueueOK
    <3>2. q[i] # <<"call", c>> /\ q[i] # <<"wake", c>>
      BY <1>1, <1>4, <2>1
    <3> QED
      BY <3>1, <3>2
  <2>2. CASE i \notin 1 .. Len(queue)
    <3>1. q[i] = <<kind, c>>
      BY <1>4, <2>2
    <3>2. q[i] # <<"build">>
      BY <3>1
    <3>3. ASSUME NEW b \in CallId
          PROVE  /\ q[i] = <<"call", b>> => b = c /\ kind = "call"
                 /\ q[i] = <<"wake", b>> => b = c /\ kind = "wake"
      BY <3>1
    <3> QED
      BY <3>2, <3>3
  <2> QED
    BY <2>1, <2>2
<1> QED
  BY <1>4, <1>5, QueueKept DEF q

\* Nothing is queued or taken, and no call that waits has moved.
LEMMA QueueAlone ==
  ASSUME QueueOK, queue' = queue, job = "queued" => job' = "queued",
         \A c \in CallId : calls[c].state \in {"queued", "blocked"} => calls'[c] = calls[c]
  PROVE  QueueOK'
<1>1. ASSUME NEW i \in 1 .. Len(queue)
      PROVE  /\ queue[i] = <<"build">> => job' = "queued"
             /\ \A c \in CallId :
                  /\ queue[i] = <<"call", c>> => calls'[c].state = "queued"
                  /\ queue[i] = <<"wake", c>> => calls'[c].state = "blocked"
  BY DEF QueueOK
<1> QED
  BY <1>1, QueueKept DEF QueueOK

LEMMA QueueNext ==
  ASSUME SpawnInv, [SpawnNext]_tvars
  PROVE  QueueOK'
<1>0. QueueOK /\ calls \in [CallId -> [of : {Old} \cup DOMAIN links, state : States]]
  BY DEF SpawnInv, CallsOK
<1>1. CASE Dispatch
  <2> DEFINE n == Len(Tail(queue))
  <2>1. /\ Len(queue) \in Nat \ {0} /\ Tail(queue) \in Seq(PoolJob) /\ n = Len(queue) - 1
        /\ \A i \in 1 .. n : i + 1 \in 1 .. Len(queue) /\ Tail(queue)[i] = queue[i + 1]
        /\ \A i \in 1 .. n : i + 1 # 1
        /\ queue' = Tail(queue)
    BY <1>1, DispatchHead DEF Dispatch
  <2> HIDE DEF n
  <2>2. 1 \in 1 .. Len(queue)
    BY <2>1
  <2>3. \A i \in 1 .. n : Tail(queue)[i] # queue[1]
    BY <2>1, <2>2, <1>0 DEF QueueOK
  <2>4. ASSUME NEW i \in 1 .. n, NEW j \in 1 .. n, Tail(queue)[i] = Tail(queue)[j]
        PROVE  i = j
    <3>1. i + 1 = j + 1
      BY <2>1, <2>4, <1>0 DEF QueueOK
    <3> QED
      BY <2>1, <3>1
  <2>5. ASSUME NEW i \in 1 .. n
        PROVE  /\ Tail(queue)[i] = <<"build">> => job' = "queued"
               /\ \A c \in CallId :
                    /\ Tail(queue)[i] = <<"call", c>> => calls'[c].state = "queued"
                    /\ Tail(queue)[i] = <<"wake", c>> => calls'[c].state = "blocked"
    <3>1. /\ Tail(queue)[i] = <<"build">> => job = "queued"
          /\ \A c \in CallId :
               /\ Tail(queue)[i] = <<"call", c>> => calls[c].state = "queued"
               /\ Tail(queue)[i] = <<"wake", c>> => calls[c].state = "blocked"
      BY <1>0, <2>1 DEF QueueOK
    <3>2. CASE queue[1] = <<"build">> /\ job' = "running" /\ calls' = calls
      BY <2>3, <3>1, <3>2
    <3>3. CASE \E c \in CallId :
                 /\ \/ queue[1] = <<"call", c>> /\ calls[c].state = "queued" /\ Set(c, "running")
                    \/ queue[1] = <<"wake", c>> /\ calls[c].state = "blocked" /\ Set(c, "waking")
                 /\ job' = job
      <4>1. PICK c \in CallId :
                 /\ \/ queue[1] = <<"call", c>> /\ calls[c].state = "queued" /\ Set(c, "running")
                    \/ queue[1] = <<"wake", c>> /\ calls[c].state = "blocked" /\ Set(c, "waking")
                 /\ job' = job
        BY <3>3
      <4>2. \A b \in CallId : b # c => calls'[b] = calls[b]
        BY <1>0, <4>1 DEF Set
      <4>3. Tail(queue)[i] # <<"call", c>> /\ Tail(queue)[i] # <<"wake", c>>
        BY <2>3, <3>1, <4>1
      <4> QED
        BY <3>1, <4>1, <4>2, <4>3
    <3> QED
      BY <1>1, <3>2, <3>3, DispatchHead
  <2> QED
    BY <1>0, <2>1, <2>4, <2>5, QueueKept DEF n
<1>2. CASE Poll
  <2>1. \A i \in 1 .. Len(queue) : queue[i] # <<"build">>
    BY <1>0, <1>2 DEF Poll, QueueOK, SpawnInv, PlaceOK
  <2>2. <<"build">> \in PoolJob
    BY DEF PoolJob
  <2>3. queue' = Append(queue, <<"build">>) /\ job' = "queued" /\ calls' = calls
    BY <1>2 DEF Poll
  <2> DEFINE q == Append(queue, <<"build">>)
  <2>4. /\ q \in Seq(PoolJob) /\ Len(queue) \in Nat /\ Len(q) = Len(queue) + 1
        /\ \A i \in 1 .. Len(queue) : q[i] = queue[i]
        /\ q[Len(queue) + 1] = <<"build">>
        /\ \A i, j \in 1 .. Len(q) : q[i] = q[j] => i = j
    BY <1>0, <2>1, <2>2, QueueAppend
  <2> HIDE DEF q
  <2>5. \A i \in 1 .. Len(q) : i \in 1 .. Len(queue) \/ q[i] = <<"build">>
    BY <2>4
  <2>6. \A c \in CallId : <<"build">> # <<"call", c>> /\ <<"build">> # <<"wake", c>>
    OBVIOUS
  <2>7. \A i \in 1 .. Len(q) :
           /\ q[i] = <<"build">> => job' = "queued"
           /\ \A c \in CallId :
                /\ q[i] = <<"call", c>> => calls'[c].state = "queued"
                /\ q[i] = <<"wake", c>> => calls'[c].state = "blocked"
    BY <1>0, <2>3, <2>4, <2>5, <2>6 DEF QueueOK
  <2> QED
    BY <1>0, <2>3, <2>4, <2>7, QueueKept DEF q
<1>3. ASSUME NEW c \in CallId, Call(c)
      PROVE  QueueOK'
  <2>1. calls[c].state = "idle" /\ job' = job
    BY <1>3 DEF Call, async
  <2>2. PICK id \in Callable :
       IF CallsShim(id)
       THEN /\ calls' = [calls EXCEPT ![c] = [of |-> id, state |-> "queued"]]
            /\ queue' = Append(queue, <<"call", c>>)
       ELSE /\ calls' = [calls EXCEPT ![c] = [of |-> id, state |-> "worker"]]
            /\ queue' = queue
    BY <1>3 DEF Call
  <2>3. CASE CallsShim(id)
    <3>1. /\ calls'[c].state = "queued" /\ \A b \in CallId \ {c} : calls'[b] = calls[b]
          /\ queue' = Append(queue, <<"call", c>>)
      BY <1>0, <2>2, <2>3
    <3> QED
      BY <1>0, <2>1, <3>1, CallQueued
  <2>4. CASE ~CallsShim(id)
    <3>1. /\ \A b \in CallId \ {c} : calls'[b] = calls[b]
          /\ queue' = queue
      BY <1>0, <2>2, <2>4
    <3> QED
      BY <1>0, <2>1, <3>1, QueueAlone
  <2> QED
    BY <2>3, <2>4
<1>4. ASSUME NEW c \in CallId, BlockOn(c)
      PROVE  QueueOK'
  <2>1. /\ calls[c].state = "running" /\ job' = job /\ queue' = Append(queue, <<"wake", c>>)
        /\ calls'[c].state = "blocked" /\ \A b \in CallId \ {c} : calls'[b] = calls[b]
    BY <1>0, <1>4 DEF BlockOn, Set, async
  <2> QED
    BY <1>0, <2>1, CallQueued
<1>5. ASSUME NEW c \in CallId, Wake(c) \/ CallReturns(c)
      PROVE  QueueOK'
  <2>1. /\ calls[c].state \notin {"queued", "blocked"} /\ job' = job /\ queue' = queue
        /\ \A b \in CallId \ {c} : calls'[b] = calls[b]
    BY <1>0, <1>5 DEF Wake, CallReturns, Set, async
  <2> QED
    BY <1>0, <2>1, QueueAlone
<1>6. CASE Prepare \/ Spawn \/ Cancel \/ Resume \/ DropModule \/ Closure \/ UNCHANGED tvars
  <2>1. queue' = queue /\ calls' = calls
    BY <1>6 DEF Prepare, Spawn, Cancel, Resume, DropModule, Closure, ClosureStep,
       ClosureReturns, ClosurePanics, tvars, pool
  <2>2. job = "queued" => job' = "queued"
    BY <1>6 DEF Prepare, Spawn, Cancel, Resume, DropModule, Closure, ClosureStep,
       ClosureReturns, ClosurePanics, Running, tvars, async
  <2> QED
    BY <1>0, <2>1, <2>2, QueueAlone
<1> QED
  BY <1>1, <1>2, <1>3, <1>4, <1>5, <1>6 DEF SpawnNext, CallStep

\* The calls that hold a thread of their own, and those whose future holds one.
OnThread == { c \in CallId : calls[c].state \in {"running", "blocked", "waking", "served"} }
OnSecond == { c \in CallId : calls[c].state = "waking" }

LEMMA SetMove ==
  ASSUME NEW S, IsFiniteSet(S), NEW x, NEW T, T \in {S \cup {x}, S \ {x}}
  PROVE  /\ Cardinality(S) \in Nat /\ Cardinality(T) \in Nat
         /\ Cardinality(T) = Cardinality(S) + (IF x \in T THEN 1 ELSE 0)
                                            - (IF x \in S THEN 1 ELSE 0)
<1>1. Cardinality(S) \in Nat
  BY FS_CardinalityType
<1>2. CASE T = S \cup {x}
  <2>1. IsFiniteSet(T) /\ Cardinality(T) = IF x \in S THEN Cardinality(S) ELSE Cardinality(S) + 1
    BY <1>2, FS_AddElement
  <2>2. x \in T /\ Cardinality(T) \in Nat
    BY <1>2, <2>1, FS_CardinalityType
  <2> QED
    BY <1>1, <2>1, <2>2
<1>3. CASE T = S \ {x}
  <2>1. IsFiniteSet(T) /\ Cardinality(T) = IF x \in S THEN Cardinality(S) - 1 ELSE Cardinality(S)
    BY <1>3, FS_RemoveElement
  <2>2. x \notin T /\ Cardinality(T) \in Nat
    BY <1>3, <2>1, FS_CardinalityType
  <2> QED
    BY <1>1, <2>1, <2>2
<1> QED
  BY <1>2, <1>3

LEMMA ThreadSets ==
  /\ IsFiniteSet(OnThread) /\ IsFiniteSet(OnSecond)
  /\ Cardinality(OnThread) \in Nat /\ Cardinality(OnSecond) \in Nat
  /\ Threads = (IF job = "running" THEN 1 ELSE 0) + Cardinality(OnThread) + Cardinality(OnSecond)
<1>1. IsFiniteSet(OnThread) /\ IsFiniteSet(OnSecond)
  <2>1. IsFiniteSet(CallId)
    BY SpawnAssumption
  <2> QED
    BY <2>1, FS_Subset DEF OnThread, OnSecond
<1> QED
  BY <1>1, FS_CardinalityType DEF Threads, OnThread, OnSecond

\* One call moves: the threads it holds after, less those it held before.
Weight(state) == CASE state = "waking" -> 2
                   [] state \in {"running", "blocked", "served"} -> 1
                   [] OTHER -> 0

LEMMA ThreadsMove ==
  ASSUME CallsOK, CallsOK', NEW c \in CallId, \A b \in CallId \ {c} : calls'[b] = calls[b]
  PROVE  /\ Cardinality(OnThread)' \in Nat /\ Cardinality(OnSecond)' \in Nat
         /\ Cardinality(OnThread)' + Cardinality(OnSecond)' =
              Cardinality(OnThread) + Cardinality(OnSecond)
              + Weight(calls'[c].state) - Weight(calls[c].state)
<1>1. OnThread' \in {OnThread \cup {c}, OnThread \ {c}}
  BY DEF OnThread
<1>2. OnSecond' \in {OnSecond \cup {c}, OnSecond \ {c}}
  BY DEF OnSecond
<1>3. /\ Cardinality(OnThread)' \in Nat /\ Cardinality(OnThread) \in Nat
      /\ Cardinality(OnThread)' = Cardinality(OnThread) + (IF c \in OnThread' THEN 1 ELSE 0)
                                                       - (IF c \in OnThread THEN 1 ELSE 0)
  BY <1>1, SetMove, ThreadSets
<1>4. /\ Cardinality(OnSecond)' \in Nat /\ Cardinality(OnSecond) \in Nat
      /\ Cardinality(OnSecond)' = Cardinality(OnSecond) + (IF c \in OnSecond' THEN 1 ELSE 0)
                                                       - (IF c \in OnSecond THEN 1 ELSE 0)
  BY <1>2, SetMove, ThreadSets
<1>5. Weight(calls[c].state) = (IF c \in OnThread THEN 1 ELSE 0) + (IF c \in OnSecond THEN 1 ELSE 0)
  BY DEF Weight, OnThread, OnSecond
<1>6. Weight(calls'[c].state) =
        (IF c \in OnThread' THEN 1 ELSE 0) + (IF c \in OnSecond' THEN 1 ELSE 0)
  BY DEF Weight, OnThread, OnSecond
<1> QED
  BY <1>3, <1>4, <1>5, <1>6

LEMMA ThreadsNext ==
  ASSUME SpawnInv, CallsOK', [SpawnNext]_tvars
  PROVE  ThreadsOK'
<1> DEFINE n == Cardinality(OnThread)
           m == Cardinality(OnSecond)
           n1 == Cardinality(OnThread)'
           m1 == Cardinality(OnSecond)'
<1>0. /\ CallsOK /\ Threads <= PoolSize /\ n \in Nat /\ m \in Nat /\ PoolSize \in Nat
      /\ Threads = (IF job = "running" THEN 1 ELSE 0) + n + m
      /\ Threads' = (IF job' = "running" THEN 1 ELSE 0) + n1 + m1
  <2>1. Threads' = (IF job' = "running" THEN 1 ELSE 0) + n1 + m1
    BY DEF Threads, OnThread, OnSecond
  <2> QED
    BY <2>1, ThreadSets, SpawnAssumption DEF SpawnInv, ThreadsOK
<1>1. calls' = calls => n1 = n /\ m1 = m
  BY DEF OnThread, OnSecond
<1>2. \A c \in CallId : (\A b \in CallId \ {c} : calls'[b] = calls[b]) =>
        /\ n1 \in Nat /\ m1 \in Nat
        /\ n1 + m1 = n + m + Weight(calls'[c].state) - Weight(calls[c].state)
  BY <1>0, ThreadsMove
<1> HIDE DEF n, m, n1, m1
<1>3. CASE Dispatch
  <2>1. Threads < PoolSize /\ job' \in {job, "running"}
    BY <1>3, DispatchHead DEF Dispatch, ThreadFree
  <2>2. CASE job' = "running" /\ calls' = calls
    BY <1>0, <1>1, <2>1, <2>2 DEF ThreadsOK
  <2>3. CASE \E c \in CallId :
               /\ \/ calls[c].state = "queued" /\ Set(c, "running")
                  \/ calls[c].state = "blocked" /\ Set(c, "waking")
               /\ job' = job
    <3>1. PICK c \in CallId :
               /\ \/ calls[c].state = "queued" /\ Set(c, "running")
                  \/ calls[c].state = "blocked" /\ Set(c, "waking")
               /\ job' = job
      BY <2>3
    <3>2. \A b \in CallId \ {c} : calls'[b] = calls[b]
      BY <1>0, <3>1 DEF Set, CallsOK
    <3>3. Weight(calls'[c].state) - Weight(calls[c].state) = 1
      BY <1>0, <3>1 DEF Set, Weight, CallsOK
    <3>4. n1 \in Nat /\ m1 \in Nat /\ n1 + m1 = n + m + 1
      <4>1. Weight(calls'[c].state) \in Nat /\ Weight(calls[c].state) \in Nat
        BY DEF Weight
      <4> QED
        BY <1>0, <1>2, <3>2, <3>3, <4>1
    <3> QED
      BY <1>0, <2>1, <3>1, <3>4 DEF ThreadsOK
  <2> QED
    BY <1>3, <2>2, <2>3, DispatchHead
<1>4. ASSUME NEW c \in CallId, Call(c) \/ CallStep(c)
      PROVE  ThreadsOK'
  <2>1. /\ \A b \in CallId \ {c} : calls'[b] = calls[b]
        /\ job' = job
        /\ Weight(calls'[c].state) <= Weight(calls[c].state)
    BY <1>0, <1>4 DEF Call, CallStep, BlockOn, Wake, CallReturns, Set, CallsOK, async, Weight, NoCall
  <2>2. Weight(calls'[c].state) \in Nat /\ Weight(calls[c].state) \in Nat
    BY DEF Weight
  <2>3. n1 \in Nat /\ m1 \in Nat /\ n1 + m1 <= n + m
    BY <1>0, <1>2, <2>1, <2>2
  <2> QED
    BY <1>0, <2>1, <2>3 DEF ThreadsOK
<1>5. CASE ~(Dispatch \/ \E c \in CallId : Call(c) \/ CallStep(c))
  <2>1. calls' = calls
    BY <1>5 DEF SpawnNext, Prepare, Spawn, Poll, Cancel, Resume, DropModule, Closure,
       ClosureStep, ClosureReturns, ClosurePanics, tvars, pool
  <2>2. job' = "running" => job = "running"
    BY <1>5 DEF SpawnNext, Prepare, Spawn, Poll, Cancel, Resume, DropModule, Closure,
       ClosureStep, ClosureReturns, ClosurePanics, tvars, async
  <2> QED
    BY <1>0, <1>1, <2>1, <2>2 DEF ThreadsOK
<1> QED
  BY <1>3, <1>4, <1>5

(***************************************************************************)
(* The theorems                                                             *)
(***************************************************************************)
LEMMA SpawnInvInit ==
  ASSUME SpawnInit
  PROVE  SpawnInv
<1>1. calls = [c \in CallId |-> NoCall] /\ job = "none" /\ queue = <<>> /\ ptrs = {}
  BY DEF SpawnInit
<1>2. QueueOK /\ CallsOK
  BY <1>1, EmptySeq DEF QueueOK, CallsOK, NoCall, States
<1>3. PlaceOK /\ HandedBackWhole
  BY DEF SpawnInit, Init, PlaceOK, Gone, HandedBackWhole
<1>4. CodeOutlivesCalls
  BY <1>1 DEF CodeOutlivesCalls, InFlight, NoCall
<1>5. ThreadsOK
  <2>1. OnThread = {} /\ OnSecond = {}
    BY <1>1 DEF OnThread, OnSecond, NoCall
  <2>2. PoolSize \in Nat
    BY SpawnAssumption
  <2> QED
    BY <1>1, <2>1, <2>2, ThreadSets, FS_EmptySet DEF ThreadsOK
<1> QED
  BY <1>2, <1>3, <1>4, <1>5 DEF SpawnInv

LEMMA SpawnInvariant == SpawnSpec => []SpawnInv
<1>1. SpawnInit => SpawnInv
  BY SpawnInvInit
<1>2. SpawnInv /\ JitInv /\ [SpawnNext]_tvars => SpawnInv'
  BY PlaceNext, WholeNext, QueueNext, CallsNext, OutlivesNext, ThreadsNext DEF SpawnInv
<1>3. SpawnSpec => []JitInv
  BY SpawnedModuleIsModule, JitInvariant
<1> QED
  BY <1>1, <1>2, <1>3, PTL DEF SpawnSpec

\* Task, closure and pool agree on where the module is, and the pool never
\* starts a thread too many.
THEOREM SpawnTypes == SpawnSpec => []SpawnTypeOK
<1>1. SpawnInv => SpawnTypeOK
  BY DEF SpawnInv, PlaceOK, Gone, CallsOK, ThreadsOK, SpawnTypeOK
<1> QED
  BY <1>1, SpawnInvariant, PTL

\* However the closure of spawn_blocking_build ends and whenever its future is
\* dropped, nobody outside of the closure ever holds a module with a build half
\* way or a panic behind it.
THEOREM ModuleComesBackWhole == SpawnSpec => []HandedBackWhole
<1>1. SpawnInv => HandedBackWhole
  BY DEF SpawnInv
<1> QED
  BY <1>1, SpawnInvariant, PTL

\* Code is called only while its module is with the task, whatever has been
\* rebuilt meanwhile.
THEOREM CallsKeepModule == SpawnSpec => []CodeOutlivesCalls
<1>1. SpawnInv => CodeOutlivesCalls
  BY DEF SpawnInv
<1> QED
  BY <1>1, SpawnInvariant, PTL

\* Once its owner is gone the module is dropped or still in the closure, which
\* will drop it.
THEOREM NoModuleLeftOver == SpawnSpec => []NoOrphan
<1>1. SpawnInv => NoOrphan
  BY DEF SpawnInv, PlaceOK, Gone, NoOrphan
<1> QED
  BY <1>1, SpawnInvariant, PTL

\* Nobody uses a module that has been dropped, or gets it back.
DroppedForGood == [][holder = "dropped" => holder' = "dropped" /\ UNCHANGED vars]_tvars

\* A closure that outlives its future, a panic and a late resumption all leave
\* a dropped module alone.
THEOREM NoUseAfterDrop == SpawnSpec => DroppedForGood
<1>1. SpawnInv /\ [SpawnNext]_tvars =>
        [holder = "dropped" => holder' = "dropped" /\ UNCHANGED vars]_tvars
  <2>1. ASSUME SpawnInv, SpawnNext, holder = "dropped"
        PROVE  holder' = "dropped" /\ UNCHANGED vars
    <3>1. job \notin {"queued", "running", "returned"} /\ task \notin {"free", "future"}
      BY <2>1 DEF SpawnInv, PlaceOK
    <3> QED
      BY <2>1, <3>1 DEF SpawnNext, Prepare, Spawn, Poll, Cancel, Resume, DropModule, Dispatch,
         Closure, ClosureStep, ClosureReturns, ClosurePanics, Running, Call, CallStep, BlockOn,
         Wake, CallReturns, async, pool
  <2> QED
    BY <2>1
<1> QED
  BY <1>1, SpawnInvariant, PTL DEF SpawnSpec, DroppedForGood

(***************************************************************************)
(* The pool cannot wait for itself                                          *)
(***************************************************************************)
\* What waits for a thread has a job in the queue: no wake-up is lost.
Queued(e) == \E i \in 1 .. Len(queue) : queue[i] = e

WaitersQueued ==
  /\ job = "queued" => Queued(<<"build">>)
  /\ \A c \in CallId :
       /\ calls[c].state = "queued" => Queued(<<"call", c>>)
       /\ calls[c].state = "blocked" => Queued(<<"wake", c>>)

LEMMA QueuedAppend ==
  ASSUME queue \in Seq(PoolJob), NEW x \in PoolJob, queue' = Append(queue, x),
         NEW e, Queued(e) \/ e = x
  PROVE  Queued(e)'
<1>1. /\ Len(queue) \in Nat /\ Len(Append(queue, x)) = Len(queue) + 1
      /\ \A i \in 1 .. Len(queue) : Append(queue, x)[i] = queue[i]
      /\ Append(queue, x)[Len(queue) + 1] = x
  BY AppendProperties, LenProperties
<1>2. \A i \in 1 .. Len(queue) : i \in 1 .. Len(queue) + 1
  BY <1>1
<1>3. Len(queue) + 1 \in 1 .. Len(queue) + 1
  BY <1>1
<1>4. \E i \in 1 .. Len(queue) + 1 : Append(queue, x)[i] = e
  BY <1>1, <1>2, <1>3 DEF Queued
<1> QED
  BY <1>1, <1>4 DEF Queued

LEMMA QueuedTail ==
  ASSUME SpawnInv, Dispatch, NEW e, Queued(e), e # queue[1]
  PROVE  Queued(e)'
<1>1. /\ Len(queue) \in Nat \ {0} /\ Len(Tail(queue)) = Len(queue) - 1
      /\ \A i \in 1 .. Len(Tail(queue)) : Tail(queue)[i] = queue[i + 1]
      /\ queue' = Tail(queue)
  BY DispatchHead DEF Dispatch
<1>2. PICK i \in 1 .. Len(queue) : queue[i] = e
  BY DEF Queued
<1>3. i # 1
  BY <1>2
<1>4. i - 1 \in 1 .. Len(queue) - 1 /\ (i - 1) + 1 = i
  BY <1>1, <1>3
<1>5. Tail(queue)[i - 1] = e
  BY <1>1, <1>2, <1>4
<1> QED
  BY <1>1, <1>4, <1>5 DEF Queued

LEMMA WaitersNext ==
  ASSUME SpawnInv, WaitersQueued, [SpawnNext]_tvars
  PROVE  WaitersQueued'
<1>0. queue \in Seq(PoolJob) /\ calls \in [CallId -> [of : {Old} \cup DOMAIN links, state : States]]
  BY DEF SpawnInv, QueueOK, CallsOK
<1>1. CASE Dispatch
  <2>1. CASE queue[1] = <<"build">> /\ job' = "running" /\ calls' = calls
    <3>1. ASSUME NEW c \in CallId
          PROVE  /\ calls'[c].state = "queued" => Queued(<<"call", c>>)'
                 /\ calls'[c].state = "blocked" => Queued(<<"wake", c>>)'
      <4>1. <<"call", c>> # queue[1] /\ <<"wake", c>> # queue[1]
        BY <2>1
      <4> QED
        BY <1>1, <2>1, <4>1, QueuedTail DEF WaitersQueued
    <3> QED
      BY <2>1, <3>1 DEF WaitersQueued
  <2>2. ASSUME NEW c \in CallId,
               \/ queue[1] = <<"call", c>> /\ Set(c, "running")
               \/ queue[1] = <<"wake", c>> /\ Set(c, "waking"),
               job' = job
        PROVE  WaitersQueued'
    <3>1. /\ calls'[c].state \in {"running", "waking"}
          /\ \A b \in CallId \ {c} : calls'[b] = calls[b]
      BY <1>0, <2>2 DEF Set
    <3>2. /\ <<"build">> # queue[1]
          /\ \A b \in CallId \ {c} : <<"call", b>> # queue[1] /\ <<"wake", b>> # queue[1]
      BY <2>2
    <3>3. job = "queued" => Queued(<<"build">>)'
      BY <1>1, <3>2, QueuedTail DEF WaitersQueued
    <3>4. ASSUME NEW b \in CallId \ {c}
          PROVE  /\ calls[b].state = "queued" => Queued(<<"call", b>>)'
                 /\ calls[b].state = "blocked" => Queued(<<"wake", b>>)'
      BY <1>1, <3>2, QueuedTail DEF WaitersQueued
    <3> QED
      BY <2>2, <3>1, <3>3, <3>4 DEF WaitersQueued
  <2> QED
    BY <1>1, <2>1, <2>2, DispatchHead
<1>2. CASE Poll
  <2>1. <<"build">> \in PoolJob /\ queue' = Append(queue, <<"build">>) /\ calls' = calls
    BY <1>2 DEF Poll, PoolJob
  <2>2. \A e : Queued(e) \/ e = <<"build">> => Queued(e)'
    BY <1>0, <2>1, QueuedAppend
  <2> QED
    BY <2>1, <2>2 DEF WaitersQueued
<1>3. ASSUME NEW c \in CallId, Call(c) \/ BlockOn(c)
      PROVE  WaitersQueued'
  <2>1. /\ job' = job /\ \A b \in CallId \ {c} : calls'[b] = calls[b]
        /\ \/ calls'[c].state = "worker" /\ queue' = queue
           \/ calls'[c].state = "queued" /\ queue' = Append(queue, <<"call", c>>)
           \/ calls'[c].state = "blocked" /\ queue' = Append(queue, <<"wake", c>>)
    BY <1>0, <1>3 DEF Call, BlockOn, Set, async
  <2>2. <<"call", c>> \in PoolJob /\ <<"wake", c>> \in PoolJob
    BY DEF PoolJob
  <2>3. \A e : Queued(e) => Queued(e)'
    <3>1. queue' = queue => \A e : Queued(e) => Queued(e)'
      BY DEF Queued
    <3> QED
      BY <1>0, <2>1, <2>2, <3>1, QueuedAppend
  <2>4. /\ calls'[c].state = "queued" => Queued(<<"call", c>>)'
        /\ calls'[c].state = "blocked" => Queued(<<"wake", c>>)'
    BY <1>0, <2>1, <2>2, QueuedAppend
  <2> QED
    BY <2>1, <2>3, <2>4 DEF WaitersQueued
<1>4. CASE \/ Prepare \/ Spawn \/ Cancel \/ Resume \/ DropModule \/ Closure \/ UNCHANGED tvars
           \/ \E c \in CallId : Wake(c) \/ CallReturns(c)
  <2>1. queue' = queue /\ (job' = "queued" => job = "queued")
    BY <1>4 DEF Prepare, Spawn, Cancel, Resume, DropModule, Closure, ClosureStep,
       ClosureReturns, ClosurePanics, Wake, CallReturns, tvars, async, pool
  <2>2. \A c \in CallId : calls'[c].state \in {"queued", "blocked"} => calls'[c] = calls[c]
    BY <1>0, <1>4 DEF Prepare, Spawn, Cancel, Resume, DropModule, Closure, ClosureStep,
       ClosureReturns, ClosurePanics, Wake, CallReturns, Set, NoCall, tvars, pool
  <2>3. \A e : Queued(e) => Queued(e)'
    BY <2>1 DEF Queued
  <2> QED
    BY <2>1, <2>2, <2>3 DEF WaitersQueued
<1> QED
  BY <1>1, <1>2, <1>3, <1>4 DEF SpawnNext, CallStep

LEMMA WaitersInvariant == SpawnSpec => []WaitersQueued
<1>1. SpawnInit => WaitersQueued
  BY DEF SpawnInit, WaitersQueued, NoCall
<1>2. SpawnInv /\ WaitersQueued /\ [SpawnNext]_tvars => WaitersQueued'
  BY WaitersNext
<1> QED
  BY <1>1, <1>2, SpawnInvariant, PTL DEF SpawnSpec

\* A pool at rest has all its threads in blocked shims: a thread that is free
\* would have a job to take, and every other taken thread can go on.
LEMMA RestMeansExhausted ==
  ASSUME SpawnInv, WaitersQueued, Waiting, ~CanGoOn
  PROVE  Exhausted
<1>0. \A c \in CallId : calls[c].state \in States
  BY DEF SpawnInv, CallsOK
<1>1. \A c \in CallId : calls[c].state \in {"idle", "queued", "blocked"}
  BY <1>0 DEF States, CanGoOn
<1>2. job = "queued" \/ \E c \in CallId : calls[c].state \in {"queued", "blocked"}
  BY <1>1 DEF SpawnInv, PlaceOK, InFlight, Running, Waiting, CanGoOn
<1>3. \E e : Queued(e)
  BY <1>2 DEF WaitersQueued
<1>4. queue # <<>>
  BY <1>3 DEF Queued
<1>5. ~(Threads < PoolSize)
  BY <1>4 DEF CanGoOn, ThreadFree
<1>6. OnSecond = {} /\ OnThread = Blocked
  BY <1>1 DEF OnSecond, OnThread, Blocked
<1>7. /\ Threads = Cardinality(Blocked) + 0 /\ Cardinality(Blocked) \in Nat
      /\ Threads <= PoolSize /\ PoolSize \in Nat
  BY <1>6, ThreadSets, FS_EmptySet, SpawnAssumption DEF CanGoOn, Running, SpawnInv, ThreadsOK
<1> QED
  BY <1>5, <1>7 DEF Exhausted

\* For every number of threads and calls: while a build is awaited or a call is
\* in flight something can go on, unless every thread is blocked in a shim.
THEOREM PoolStuckOnlyExhausted == SpawnSpec => []NeverStuck
<1>1. SpawnInv /\ WaitersQueued => NeverStuck
  BY RestMeansExhausted DEF NeverStuck
<1> QED
  BY <1>1, SpawnInvariant, WaitersInvariant, PTL

\* In an exhausted pool no thread is free, and nothing but blocked calls is on
\* one.
LEMMA ExhaustedThreads ==
  ASSUME SpawnInv, Exhausted
  PROVE  /\ ~ThreadFree /\ ~Running
         /\ \A c \in CallId : calls[c].state \in {"idle", "worker", "queued", "blocked"}
<1>1. /\ IsFiniteSet(OnThread) /\ IsFiniteSet(OnSecond) /\ Blocked \subseteq OnThread
      /\ Cardinality(OnThread) \in Nat /\ Cardinality(OnSecond) \in Nat
      /\ Threads = (IF job = "running" THEN 1 ELSE 0) + Cardinality(OnThread)
                     + Cardinality(OnSecond)
  BY ThreadSets DEF Blocked, OnThread
<1>2. PoolSize \in Nat /\ Threads <= PoolSize /\ Cardinality(Blocked) = PoolSize
  BY SpawnAssumption DEF SpawnInv, ThreadsOK, Exhausted
<1>3. Cardinality(Blocked) <= Cardinality(OnThread)
  BY <1>1, FS_Subset
<1>4. /\ job # "running" /\ Threads = PoolSize
      /\ Cardinality(OnThread) = Cardinality(Blocked)
  BY <1>1, <1>2, <1>3
<1>5. OnThread = Blocked
  BY <1>1, <1>4, FS_Subset
<1>6. \A c \in CallId : calls[c].state \in States
  BY DEF SpawnInv, CallsOK
<1>7. \A c \in CallId : calls[c].state \notin {"running", "waking", "served"}
  BY <1>5 DEF OnThread, Blocked
<1> QED
  BY <1>2, <1>4, <1>6, <1>7 DEF ThreadFree, Running, States

LEMMA ExhaustedStep ==
  ASSUME SpawnInv, Exhausted, [SpawnNext]_tvars
  PROVE  /\ Exhausted'
         /\ job = "queued" => job' = "queued"
         /\ \A c \in CallId :
              calls[c].state \in {"queued", "blocked"} => calls'[c] = calls[c]
<1>0. /\ ~Dispatch /\ ~Closure
      /\ \A c \in CallId : ~BlockOn(c) /\ ~Wake(c)
      /\ calls \in [CallId -> [of : {Old} \cup DOMAIN links, state : States]]
  BY ExhaustedThreads DEF Dispatch, Closure, ClosureStep, ClosureReturns, ClosurePanics, BlockOn,
     Wake, SpawnInv, CallsOK
<1>1. job = "queued" => job' = "queued"
  BY <1>0 DEF SpawnNext, Prepare, Spawn, Poll, Cancel, Resume, DropModule, Call, CallStep,
     CallReturns, tvars, async, SpawnInv, PlaceOK
<1>2. \A c \in CallId :
        /\ calls[c].state \in {"queued", "blocked"} => calls'[c] = calls[c]
        /\ calls'[c].state = "blocked" => calls[c].state = "blocked"
  <2>1. ASSUME NEW b \in CallId, Call(b) \/ CallReturns(b)
        PROVE  /\ calls[b].state \in {"idle", "worker", "running", "served"}
               /\ calls'[b].state \in {"queued", "worker", "idle"}
               /\ \A c \in CallId \ {b} : calls'[c] = calls[c]
    BY <1>0, <2>1 DEF Call, CallReturns, NoCall
  <2>2. CASE \E b \in CallId : Call(b) \/ CallReturns(b)
    BY <2>1, <2>2
  <2>3. CASE ~\E b \in CallId : Call(b) \/ CallReturns(b)
    <3>1. calls' = calls
      BY <1>0, <2>3 DEF SpawnNext, Prepare, Spawn, Poll, Cancel, Resume, DropModule, CallStep,
         tvars, pool
    <3> QED
      BY <3>1
  <2> QED
    BY <2>2, <2>3
<1>3. Exhausted'
  <2>1. \A c \in CallId : calls'[c].state = "blocked" <=> calls[c].state = "blocked"
    BY <1>2
  <2>2. { c \in CallId : calls'[c].state = "blocked" } = { c \in CallId : calls[c].state = "blocked" }
    BY <2>1
  <2>3. Cardinality({ c \in CallId : calls[c].state = "blocked" }) = PoolSize
    BY DEF Exhausted, Blocked
  <2> QED
    BY <2>2, <2>3 DEF Exhausted, Blocked
<1> QED
  BY <1>1, <1>2, <1>3

\* As many blocked shims as the pool has threads are a deadlock, whatever the
\* client, the awaiting task or the calls on async workers do: dropping the
\* future of a queued build does not help either.
THEOREM ExhaustionIsFinal == SpawnSpec => ExhaustedForGood
<1>1. SpawnInv /\ [SpawnNext]_tvars =>
        [Exhausted =>
           /\ Exhausted'
           /\ job = "queued" => job' = "queued"
           /\ \A c \in CallId :
                calls[c].state \in {"queued", "blocked"} => calls'[c] = calls[c]]_tvars
  BY ExhaustedStep
<1> QED
  BY <1>1, SpawnInvariant, PTL DEF SpawnSpec, ExhaustedForGood

\* What a client of spawn_blocking_build has to see to, since the crate does
\* not: with fewer calls in flight than the pool has threads nothing gets stuck.
THEOREM SpareThreadSuffices ==
  ASSUME Cardinality(CallId) < PoolSize
  PROVE  SpawnSpec => [](Waiting => CanGoOn)
<1>1. ~Exhausted
  <2>1. IsFiniteSet(CallId) /\ Blocked \subseteq CallId /\ PoolSize \in Nat
    BY SpawnAssumption DEF Blocked
  <2>2. /\ Cardinality(Blocked) <= Cardinality(CallId)
        /\ Cardinality(Blocked) \in Nat /\ Cardinality(CallId) \in Nat
    BY <2>1, FS_Subset, FS_CardinalityType
  <2> QED
    BY <2>1, <2>2 DEF Exhausted
<1>2. NeverStuck => (Waiting => CanGoOn)
  BY <1>1 DEF NeverStuck
<1> QED
  BY <1>2, PoolStuckOnlyExhausted, PTL

(***************************************************************************)
(* The pool runs down                                                       *)
(***************************************************************************)
In(states) == Cardinality({ c \in CallId : calls[c].state \in states })

\* The steps a call, and the job of a build, are still away from their end.
Stage(state) == CASE state = "queued"  -> 5
                  [] state = "running" -> 4
                  [] state = "blocked" -> 3
                  [] state = "waking"  -> 2
                  [] state \in {"worker", "served"} -> 1
                  [] OTHER -> 0

JobStage(state) == CASE state = "queued"  -> 3
                     [] state = "running" -> 2
                     [] state \in {"returned", "panicked"} -> 1
                     [] OTHER -> 0

WorkLeft == JobStage(job) + In({"worker", "served"}) + 2 * In({"waking"}) + 3 * In({"blocked"})
            + 4 * In({"running"}) + 5 * In({"queued"})

\* Every move of a call or of the job, except those that start one.
WorkFalls ==
  [][Poll \/ (\E c \in CallId : Call(c)) \/ WorkLeft' \in 0 .. WorkLeft - 1]_<<job, calls>>

LEMMA InMove ==
  ASSUME CallsOK, CallsOK', NEW c \in CallId, \A b \in CallId \ {c} : calls'[b] = calls[b],
         NEW states
  PROVE  /\ In(states) \in Nat /\ In(states)' \in Nat
         /\ In(states)' = In(states) + (IF calls'[c].state \in states THEN 1 ELSE 0)
                                     - (IF calls[c].state \in states THEN 1 ELSE 0)
<1> DEFINE S == { b \in CallId : calls[b].state \in states }
           T == { b \in CallId : calls'[b].state \in states }
<1>1. IsFiniteSet(S)
  <2>1. IsFiniteSet(CallId) /\ S \subseteq CallId
    BY SpawnAssumption
  <2> QED
    BY <2>1, FS_Subset
<1>2. T \in {S \cup {c}, S \ {c}}
  OBVIOUS
<1>3. /\ c \in S <=> calls[c].state \in states
      /\ c \in T <=> calls'[c].state \in states
  OBVIOUS
<1>4. In(states) = Cardinality(S) /\ In(states)' = Cardinality(T)
  BY DEF In
<1> HIDE DEF S, T
<1>5. /\ Cardinality(S) \in Nat /\ Cardinality(T) \in Nat
      /\ Cardinality(T) = Cardinality(S) + (IF c \in T THEN 1 ELSE 0)
                                         - (IF c \in S THEN 1 ELSE 0)
  BY <1>1, <1>2, SetMove
<1> QED
  BY <1>3, <1>4, <1>5

\* One call moves: the work left changes by what the call is nearer its end.
LEMMA WorkMove ==
  ASSUME CallsOK, CallsOK', NEW c \in CallId, \A b \in CallId \ {c} : calls'[b] = calls[b],
         Stage(calls'[c].state) < Stage(calls[c].state), job' = job
  PROVE  WorkLeft' \in 0 .. WorkLeft - 1
<1> DEFINE now(states)  == IF calls[c].state \in states THEN 1 ELSE 0
           then(states) == IF calls'[c].state \in states THEN 1 ELSE 0
<1>1. \A states : /\ In(states) \in Nat /\ In(states)' \in Nat
                  /\ In(states)' = In(states) + then(states) - now(states)
  BY InMove
<1>2. /\ Stage(calls[c].state) =
           now({"worker", "served"}) + 2 * now({"waking"}) + 3 * now({"blocked"})
           + 4 * now({"running"}) + 5 * now({"queued"})
      /\ Stage(calls'[c].state) =
           then({"worker", "served"}) + 2 * then({"waking"}) + 3 * then({"blocked"})
           + 4 * then({"running"}) + 5 * then({"queued"})
  BY DEF Stage
<1>3. \A states : now(states) \in Nat /\ then(states) \in Nat
  OBVIOUS
<1>4. JobStage(job') = JobStage(job) /\ JobStage(job) \in Nat
  BY DEF JobStage
<1> HIDE DEF now, then
<1>5. WorkLeft' = JobStage(job') + In({"worker", "served"})' + 2 * In({"waking"})'
                  + 3 * In({"blocked"})' + 4 * In({"running"})' + 5 * In({"queued"})'
  BY DEF WorkLeft
<1> QED
  BY <1>1, <1>2, <1>3, <1>4, <1>5 DEF WorkLeft

\* The job moves: no call does.
LEMMA WorkJob ==
  ASSUME CallsOK, calls' = calls, JobStage(job') < JobStage(job)
  PROVE  WorkLeft' \in 0 .. WorkLeft - 1
<1>1. \A states : In(states)' = In(states)
  BY DEF In
<1>2. \A states : In(states) \in Nat
  <2>1. ASSUME NEW states PROVE In(states) \in Nat
    <3>1. IsFiniteSet(CallId) /\ { c \in CallId : calls[c].state \in states } \subseteq CallId
      BY SpawnAssumption
    <3> QED
      BY <3>1, FS_Subset, FS_CardinalityType DEF In
  <2> QED
    BY <2>1
<1>3. JobStage(job) \in Nat /\ JobStage(job') \in Nat
  BY DEF JobStage
<1>4. WorkLeft' = JobStage(job') + In({"worker", "served"})' + 2 * In({"waking"})'
                  + 3 * In({"blocked"})' + 4 * In({"running"})' + 5 * In({"queued"})'
  BY DEF WorkLeft
<1> QED
  BY <1>1, <1>2, <1>3, <1>4 DEF WorkLeft

LEMMA WorkNext ==
  ASSUME SpawnInv, CallsOK', [SpawnNext]_tvars, <<job, calls>>' # <<job, calls>>,
         ~Poll, ~\E c \in CallId : Call(c)
  PROVE  WorkLeft' \in 0 .. WorkLeft - 1
<1>0. /\ CallsOK /\ calls \in [CallId -> [of : {Old} \cup DOMAIN links, state : States]]
      /\ job \in {"none", "queued", "running", "returned", "panicked"}
  BY DEF SpawnInv, CallsOK, PlaceOK
<1>1. CASE Dispatch
  <2>1. CASE job = "queued" /\ job' = "running" /\ calls' = calls
    BY <1>0, <2>1, WorkJob DEF JobStage
  <2>2. ASSUME NEW c \in CallId,
               \/ calls[c].state = "queued" /\ Set(c, "running")
               \/ calls[c].state = "blocked" /\ Set(c, "waking"),
               job' = job
        PROVE  WorkLeft' \in 0 .. WorkLeft - 1
    <3>1. /\ \A b \in CallId \ {c} : calls'[b] = calls[b]
          /\ Stage(calls'[c].state) < Stage(calls[c].state)
      BY <1>0, <2>2 DEF Set, Stage
    <3> QED
      BY <1>0, <2>2, <3>1, WorkMove
  <2> QED
    BY <1>1, <2>1, <2>2, DispatchHead
<1>2. ASSUME NEW c \in CallId, CallStep(c)
      PROVE  WorkLeft' \in 0 .. WorkLeft - 1
  <2>1. /\ job' = job /\ \A b \in CallId \ {c} : calls'[b] = calls[b]
        /\ Stage(calls'[c].state) < Stage(calls[c].state)
    BY <1>0, <1>2 DEF CallStep, BlockOn, Wake, CallReturns, Set, NoCall, Stage, async
  <2> QED
    BY <1>0, <2>1, WorkMove
<1>3. CASE ~(Dispatch \/ \E c \in CallId : CallStep(c))
  <2>1. calls' = calls
    BY <1>3 DEF SpawnNext, Prepare, Spawn, Cancel, Resume, DropModule, Closure,
       ClosureStep, ClosureReturns, ClosurePanics, tvars, pool
  <2>2. \/ job = "running" /\ job' \in {"none", "returned", "panicked"}
        \/ job \in {"returned", "panicked"} /\ job' = "none"
    BY <1>0, <1>3, <2>1 DEF SpawnNext, Prepare, Spawn, Cancel, Resume, DropModule, Closure,
       ClosureStep, ClosureReturns, ClosurePanics, Running, tvars, async
  <2> QED
    BY <1>0, <2>1, <2>2, WorkJob DEF JobStage
<1> QED
  BY <1>1, <1>2, <1>3

\* Nothing a call, the closure or the task does while they are under way puts
\* work back into the pool: between two starts at most WorkLeft moves happen,
\* and while there is something left one can, unless every thread is blocked in
\* a shim (PoolStuckOnlyExhausted).
THEOREM PoolRunsDown == SpawnSpec => WorkFalls
<1>1. SpawnInv /\ SpawnInv' /\ [SpawnNext]_tvars =>
        [Poll \/ (\E c \in CallId : Call(c)) \/ WorkLeft' \in 0 .. WorkLeft - 1]_<<job, calls>>
  BY WorkNext DEF SpawnInv
<1> QED
  BY <1>1, SpawnInvariant, PTL DEF SpawnSpec, WorkFalls
\* A call that waits moves up with every dispatch and keeps its place
\* otherwise, and a call that does not wait only gets nearer to its end,
\* whatever is called or built meanwhile.
KeepsPlace(e) ==
  \A i \in 1 .. Len(queue) : queue[i] = e =>
    LET j == IF Dispatch THEN i - 1 ELSE i
    IN  j \in 1 .. Len(queue') /\ queue'[j] = e

NobodyOvertaken ==
  [][\A c \in CallId : c \in InFlight =>
       \/ Stage(calls'[c].state) < Stage(calls[c].state)
       \/ /\ calls'[c] = calls[c]
          /\ KeepsPlace(<<"call", c>>) /\ KeepsPlace(<<"wake", c>>)]_tvars

LEMMA PlaceKept ==
  ASSUME queue \in Seq(PoolJob), NEW x \in PoolJob, ~Dispatch,
         queue' = queue \/ queue' = Append(queue, x)
  PROVE  \A e : KeepsPlace(e)
<1>1. /\ Len(queue) \in Nat /\ Len(Append(queue, x)) = Len(queue) + 1
      /\ \A i \in 1 .. Len(queue) : Append(queue, x)[i] = queue[i]
  BY AppendProperties, LenProperties
<1>2. \A i \in 1 .. Len(queue) : i \in 1 .. Len(queue') /\ queue'[i] = queue[i]
  BY <1>1
<1> QED
  BY <1>2 DEF KeepsPlace

LEMMA PlaceInTail ==
  ASSUME SpawnInv, Dispatch, NEW e, e # queue[1]
  PROVE  KeepsPlace(e)
<1>1. /\ Len(queue) \in Nat \ {0} /\ Len(Tail(queue)) = Len(queue) - 1
      /\ \A i \in 1 .. Len(Tail(queue)) : Tail(queue)[i] = queue[i + 1]
      /\ queue' = Tail(queue)
  BY DispatchHead DEF Dispatch
<1>2. ASSUME NEW i \in 1 .. Len(queue), queue[i] = e
      PROVE  i - 1 \in 1 .. Len(queue') /\ queue'[i - 1] = e
  <2>1. i # 1
    BY <1>2
  <2>2. i - 1 \in 1 .. Len(queue) - 1 /\ (i - 1) + 1 = i
    BY <1>1, <2>1
  <2> QED
    BY <1>1, <1>2, <2>2
<1> QED
  BY <1>2 DEF KeepsPlace

LEMMA PlaceNextStep ==
  ASSUME SpawnInv, [SpawnNext]_tvars, NEW c \in CallId, c \in InFlight
  PROVE  \/ Stage(calls'[c].state) < Stage(calls[c].state)
         \/ /\ calls'[c] = calls[c]
            /\ KeepsPlace(<<"call", c>>) /\ KeepsPlace(<<"wake", c>>)
<1>0. /\ queue \in Seq(PoolJob) /\ <<"call", c>> \in PoolJob /\ calls[c].state # "idle"
      /\ calls \in [CallId -> [of : {Old} \cup DOMAIN links, state : States]]
  BY DEF SpawnInv, QueueOK, CallsOK, PoolJob, InFlight
<1>1. CASE Dispatch
  <2>1. CASE queue[1] = <<"build">> /\ calls' = calls
    <3>1. <<"call", c>> # queue[1] /\ <<"wake", c>> # queue[1]
      BY <2>1
    <3> QED
      BY <1>1, <2>1, <3>1, PlaceInTail
  <2>2. ASSUME NEW b \in CallId,
               \/ queue[1] = <<"call", b>> /\ calls[b].state = "queued" /\ Set(b, "running")
               \/ queue[1] = <<"wake", b>> /\ calls[b].state = "blocked" /\ Set(b, "waking")
        PROVE  \/ Stage(calls'[c].state) < Stage(calls[c].state)
               \/ /\ calls'[c] = calls[c]
                  /\ KeepsPlace(<<"call", c>>) /\ KeepsPlace(<<"wake", c>>)
    <3>1. CASE b = c
      BY <1>0, <2>2, <3>1 DEF Set, Stage
    <3>2. CASE b # c
      <4>1. calls'[c] = calls[c]
        BY <1>0, <2>2, <3>2 DEF Set
      <4>2. <<"call", c>> # queue[1] /\ <<"wake", c>> # queue[1]
        BY <2>2, <3>2
      <4> QED
        BY <1>1, <4>1, <4>2, PlaceInTail
    <3> QED
      BY <3>1, <3>2
  <2> QED
    BY <1>1, <2>1, <2>2, DispatchHead
<1>2. CASE CallStep(c)
  BY <1>0, <1>2 DEF CallStep, BlockOn, Wake, CallReturns, Set, NoCall, Stage
<1>3. CASE ~Dispatch /\ ~CallStep(c)
  <2>1. calls'[c] = calls[c]
    BY <1>0, <1>3 DEF SpawnNext, Prepare, Spawn, Poll, Cancel, Resume, DropModule, Closure,
       ClosureStep, ClosureReturns, ClosurePanics, Call, CallStep, BlockOn, Wake, CallReturns,
       Set, tvars, pool
  <2>2. \E x \in PoolJob : queue' = queue \/ queue' = Append(queue, x)
    <3>1. CASE Poll
      BY <3>1 DEF Poll, PoolJob
    <3>2. ASSUME NEW b \in CallId, Call(b) \/ CallStep(b)
          PROVE  \E x \in PoolJob : queue' = queue \/ queue' = Append(queue, x)
      <4>1. <<"call", b>> \in PoolJob /\ <<"wake", b>> \in PoolJob
        BY DEF PoolJob
      <4>2. \/ queue' = queue \/ queue' = Append(queue, <<"call", b>>)
            \/ queue' = Append(queue, <<"wake", b>>)
        BY <3>2 DEF Call, CallStep, BlockOn, Wake, CallReturns
      <4> QED
        BY <4>1, <4>2
    <3>3. CASE ~Poll /\ ~\E b \in CallId : Call(b) \/ CallStep(b)
      <4>1. queue' = queue
        BY <1>3, <3>3 DEF SpawnNext, Prepare, Spawn, Cancel, Resume, DropModule, Closure,
           ClosureStep, ClosureReturns, ClosurePanics, tvars, pool
      <4> QED
        BY <1>0, <4>1
    <3> QED
      BY <3>1, <3>2, <3>3
  <2> QED
    BY <1>0, <1>3, <2>1, <2>2, PlaceKept
<1> QED
  BY <1>1, <1>2, <1>3

\* New calls and new builds never set back a call that is in flight: with
\* PoolStuckOnlyExhausted, what a fair pool needs to end every call.
THEOREM NoCallIsSetBack == SpawnSpec => NobodyOvertaken
<1>1. SpawnInv /\ [SpawnNext]_tvars =>
        [\A c \in CallId : c \in InFlight =>
           \/ Stage(calls'[c].state) < Stage(calls[c].state)
           \/ /\ calls'[c] = calls[c]
              /\ KeepsPlace(<<"call", c>>) /\ KeepsPlace(<<"wake", c>>)]_tvars
  BY PlaceNextStep
<1> QED
  BY <1>1, SpawnInvariant, PTL DEF SpawnSpec, NobodyOvertaken
=============================================================================
