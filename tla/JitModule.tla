------------------------------ MODULE JitModule ------------------------------
(***************************************************************************)
(* The life of a JIT module as this crate drives it: the helper modules     *)
(* #[jit_export] generates (register, try_declare, declare, call), and      *)
(* define_function / define_function_with_disasm, whose body closure gets   *)
(* the module back and may declare helpers or build other functions before  *)
(* the function it belongs to is defined.                                   *)
(*                                                                          *)
(* declare_function, define_function and finalize_definitions are           *)
(* Cranelift's, modelled as this crate uses them.                           *)
(***************************************************************************)
EXTENDS Integers, Sequences, FiniteSets

CONSTANTS
    Name,           \* symbol names
    Sig,            \* signatures
    Helper,         \* functions annotated with #[jit_export]
    HelperName,     \* HelperName[h]: the identifier of h, its NAME
    HelperSig,      \* HelperSig[h]: the signature its types give
    ProcessSymbol,  \* names the default lookup of JITBuilder finds in the process
    ArchKnown,      \* capstone_for has a decoder for the module's ISA
    BuildLinkage,   \* linkages the client asks define_function for
    MaxEffort,      \* bound: builds begun plus helpers in use
    MaxDepth        \* bound: builds nested in each other's bodies

Linkages == {"Import", "Local", "Export"}

ASSUME JitAssumption ==
  /\ HelperName \in [Helper -> Name] /\ HelperSig \in [Helper -> Sig]
  /\ ProcessSymbol \subseteq Name
  \* a program text has finitely many helpers; "none" marks a call of none
  /\ IsFiniteSet(Helper) /\ "none" \notin Helper
  /\ ArchKnown \in BOOLEAN /\ BuildLinkage \subseteq Linkages
  /\ MaxEffort \in Nat /\ MaxDepth \in Nat

VARIABLES
    phase,      \* "builder", "module", or why the host panicked
    symbols,    \* JITBuilder's table: name -> the helper whose address it has
    decls,      \* the module's declarations; a FuncId is an index into them
    code,       \* compiled functions: FuncId -> signature and call sites
    links,      \* finalized functions: FuncId -> call site -> what it reaches
    open,       \* builds whose body is running, innermost last
    ids,        \* ids[h]: the FuncId declare or try_declare of h returned
    given,      \* FuncIds returned by a build that succeeded
    answer,     \* the result of the last build that ended
    builds      \* builds begun

module == <<decls, code>>
client == <<ids, given, answer>>
vars   == <<phase, symbols, module, links, open, client, builds>>

NoId == 0

\* Helpers the client has registered or declared.
Used   == { h \in Helper : ids[h] # NoId \/ \E name \in DOMAIN symbols : symbols[name] = h }
Effort == builds + Cardinality(Used)
CanUse(h) == h \in Used \/ Effort < MaxEffort

Declared(name) == { id \in DOMAIN decls : decls[id].name = name }

(***************************************************************************)
(* Cranelift                                                                *)
(***************************************************************************)
\* Linkage::merge
merge(old, new) == CASE old = "Import" -> new
                     [] new = "Export" -> "Export"
                     [] OTHER -> old

\* declare_function: the id of the name, a new one for a new name; the
\* linkages are merged, and a second signature is refused.
declare_function(name, linkage, sig) ==
  LET known == Declared(name)
      id    == IF known = {} THEN Len(decls) + 1 ELSE CHOOSE k \in known : TRUE
  IN  [id    |-> id,
       decls |-> IF known = {}
                 THEN Append(decls, [name |-> name, linkage |-> linkage, sig |-> sig])
                 ELSE [decls EXCEPT ![id].linkage = merge(@, linkage)],
       err   |-> IF known = {} \/ decls[id].sig = sig THEN "none"
                 ELSE "IncompatibleSignature"]

\* Why define_function refuses id, the first reason there is; valid says
\* whether its IR compiles.
Refusal(id, valid) ==
  IF decls[id].linkage = "Import" THEN "InvalidImportDefinition"
  ELSE IF id \in DOMAIN code THEN "DuplicateDefinition"
  ELSE IF ~valid THEN "Compilation" ELSE "none"

\* What a call of id reaches: compiled code, the address registered under the
\* name, or else whatever has that name in the process (dlsym).
Target(id) == IF id \in DOMAIN code THEN [kind |-> "jit", of |-> id]
              ELSE IF decls[id].name \in DOMAIN symbols
              THEN [kind |-> "host", of |-> symbols[decls[id].name]]
              ELSE [kind |-> IF decls[id].name \in ProcessSymbol THEN "process"
                             ELSE "unresolved", of |-> NoId]

(***************************************************************************)
(* The generated helpers                                                    *)
(***************************************************************************)
\* register: a name registered again gets the new address.
Register(h) ==
  /\ phase = "builder" /\ CanUse(h)
  /\ symbols' = [name \in DOMAIN symbols \cup {HelperName[h]} |->
                   IF name = HelperName[h] THEN h ELSE symbols[name]]
  /\ UNCHANGED <<phase, module, links, open, client, builds>>

NewModule ==
  /\ phase = "builder"
  /\ phase' = "module"
  /\ UNCHANGED <<symbols, module, links, open, client, builds>>

\* Faulty variant: the name is looked up, and the signature is not compared.
TryDeclare_unchecked(h) ==
  LET d == declare_function(HelperName[h], "Import", HelperSig[h])
  IN  /\ phase = "module" /\ CanUse(h)
      /\ decls' = d.decls
      /\ ids' = [ids EXCEPT ![h] = d.id]
      /\ UNCHANGED <<phase, symbols, code, links, open, given, answer, builds>>

\* try_declare, at top level or in a body; its Err leaves the client without
\* an id.
TryDeclare(h) ==
  LET d == declare_function(HelperName[h], "Import", HelperSig[h])
  IN  /\ phase = "module" /\ CanUse(h)
      /\ decls' = d.decls
      /\ ids' = IF d.err = "none" THEN [ids EXCEPT ![h] = d.id] ELSE ids
      /\ UNCHANGED <<phase, symbols, code, links, open, given, answer, builds>>

\* declare: the same, with expect.  A panic unwinds every open build.
Declare(h) ==
  LET d == declare_function(HelperName[h], "Import", HelperSig[h])
  IN  /\ phase = "module" /\ CanUse(h)
      /\ decls' = d.decls
      /\ IF d.err = "none"
         THEN ids' = [ids EXCEPT ![h] = d.id] /\ UNCHANGED <<phase, open>>
         ELSE phase' = "declare failed" /\ open' = <<>> /\ UNCHANGED ids
      /\ UNCHANGED <<symbols, code, links, given, answer, builds>>

(***************************************************************************)
(* define_function and define_function_with_disasm                          *)
(***************************************************************************)
Top == open[Len(open)]
Rest == SubSeq(open, 1, Len(open) - 1)

\* Ends the innermost build; an Err carries no FuncId, the model keeps the
\* one the build was about.
Answered(id, err) ==
  /\ answer' = [id |-> id, err |-> err]
  /\ given' = IF err = "none" THEN given \cup {id} ELSE given

\* declare_and_build up to the call of the body.
Begin(name, linkage, sig, disasm) ==
  LET d == declare_function(name, linkage, sig)
  IN  /\ phase = "module"
      /\ Effort < MaxEffort /\ Len(open) < MaxDepth
      /\ builds' = builds + 1
      /\ decls' = d.decls
      /\ IF d.err = "none"
         THEN /\ open' = Append(open, [id |-> d.id, sig |-> sig, disasm |-> disasm,
                                       calls |-> {}])
              /\ UNCHANGED <<given, answer>>
         ELSE Answered(d.id, d.err) /\ UNCHANGED open
      /\ UNCHANGED <<phase, symbols, code, links, ids>>

InBody == phase = "module" /\ open # <<>>

Emit(site) ==
  /\ open' = Append(Rest, [Top EXCEPT !.calls = @ \cup {site}])
  /\ UNCHANGED <<phase, symbols, module, links, client, builds>>

\* Faulty variant: the id is used before anybody declared the helper.
CallHelper_undeclared(h) ==
  /\ InBody
  /\ Emit([id |-> ids[h], helper |-> h, sig |-> HelperSig[h]])

\* The generated call: declare_func_in_func of the id the client passes.
CallHelper(h) ==
  /\ InBody
  /\ ids[h] # NoId
  /\ Emit([id |-> ids[h], helper |-> h, sig |-> HelperSig[h]])

\* jit_call! of a function built before.
CallFunction(id) ==
  /\ InBody
  /\ Emit([id |-> id, helper |-> "none", sig |-> decls[id].sig])

\* Faulty variants: the answer does not look at the result of
\* module.define_function; the disassembly comes before it.
End_unchecked(valid, decodes) ==
  /\ InBody
  /\ open' = Rest
  /\ LET err == Refusal(Top.id, valid)
     IN  /\ code' = IF err # "none" THEN code
                    ELSE [id \in DOMAIN code \cup {Top.id} |->
                            IF id = Top.id THEN [sig |-> Top.sig, calls |-> Top.calls]
                            ELSE code[id]]
         /\ Answered(Top.id, "none")
  /\ UNCHANGED <<phase, symbols, decls, links, ids, builds>>

End_swapped(valid, decodes) ==
  /\ InBody
  /\ open' = Rest
  /\ LET err == IF Top.disasm /\ ~decodes THEN "Disasm" ELSE Refusal(Top.id, valid)
     IN  /\ code' = IF err # "none" THEN code
                    ELSE [id \in DOMAIN code \cup {Top.id} |->
                            IF id = Top.id THEN [sig |-> Top.sig, calls |-> Top.calls]
                            ELSE code[id]]
         /\ Answered(Top.id, err)
  /\ UNCHANGED <<phase, symbols, decls, links, ids, builds>>

\* Faulty variant: a second build under the name replaces the first.
End_redefining(valid, decodes) ==
  /\ InBody
  /\ open' = Rest
  /\ LET err == IF Refusal(Top.id, valid) = "DuplicateDefinition" THEN "none"
                ELSE Refusal(Top.id, valid)
     IN  /\ code' = IF err # "none" THEN code
                    ELSE [id \in DOMAIN code \cup {Top.id} |->
                            IF id = Top.id THEN [sig |-> Top.sig, calls |-> Top.calls]
                            ELSE code[id]]
         /\ Answered(Top.id, IF err = "none" /\ Top.disasm /\ ~decodes THEN "Disasm" ELSE err)
  /\ UNCHANGED <<phase, symbols, decls, links, ids, builds>>

\* The body has returned: module.define_function, then, for the variant with
\* disassembly, format_disassembly of the bytes just compiled.  When that
\* fails the function stays defined and only the caller does not get its id.
End(valid, decodes) ==
  /\ InBody
  /\ open' = Rest
  /\ LET err == Refusal(Top.id, valid)
     IN  /\ code' = IF err # "none" THEN code
                    ELSE [id \in DOMAIN code \cup {Top.id} |->
                            IF id = Top.id THEN [sig |-> Top.sig, calls |-> Top.calls]
                            ELSE code[id]]
         /\ Answered(Top.id, IF err = "none" /\ Top.disasm /\ ~decodes THEN "Disasm" ELSE err)
  /\ UNCHANGED <<phase, symbols, decls, links, ids, builds>>

(***************************************************************************)
(* finalize_definitions links every function compiled since the last time,  *)
(* and panics on a call it cannot resolve.                                  *)
(***************************************************************************)
Pending == DOMAIN code \ DOMAIN links
PendingSites == UNION { code[id].calls : id \in Pending }

Finalize ==
  /\ phase = "module" /\ open = <<>> /\ Pending # {}
  /\ IF \E s \in PendingSites : Target(s.id).kind = "unresolved"
     THEN phase' = "unresolved" /\ UNCHANGED links
     ELSE /\ links' = [id \in DOMAIN code |->
                         IF id \in DOMAIN links THEN links[id]
                         ELSE [s \in code[id].calls |-> Target(s.id)]]
          /\ UNCHANGED phase
  /\ UNCHANGED <<symbols, module, open, client, builds>>

Init ==
  /\ phase = "builder"
  /\ symbols = <<>>
  /\ decls = <<>>
  /\ code = <<>>
  /\ links = <<>>
  /\ open = <<>>
  /\ ids = [h \in Helper |-> NoId]
  /\ given = {}
  /\ answer = [id |-> NoId, err |-> "none"]
  /\ builds = 0

BeginBuild ==
  \E name \in Name, linkage \in BuildLinkage, sig \in Sig, disasm \in BOOLEAN :
    Begin(name, linkage, sig, disasm)

\* An ISA Capstone decodes may still yield bytes it refuses; another never
\* decodes.
EndBuild ==
  \E valid \in BOOLEAN : \E decodes \in {FALSE, ArchKnown} : End(valid, decodes)

Next ==
  \/ \E h \in Helper : Register(h) \/ TryDeclare(h) \/ Declare(h) \/ CallHelper(h)
  \/ NewModule
  \/ \E id \in given : CallFunction(id)
  \/ BeginBuild \/ EndBuild
  \/ Finalize

Spec == Init /\ [][Next]_vars

(***************************************************************************)
(* Properties                                                               *)
(***************************************************************************)
Site == [id : DOMAIN decls, helper : Helper \cup {"none"}, sig : Sig]

\* Every variable has its type; a declaration, once made, stays.
TypeOK ==
  /\ phase \in {"builder", "module", "declare failed", "unresolved"}
  /\ DOMAIN symbols \subseteq Name /\ \A name \in DOMAIN symbols : symbols[name] \in Helper
  /\ decls \in Seq([name : Name, linkage : Linkages, sig : Sig])
  /\ DOMAIN links \subseteq DOMAIN code /\ DOMAIN code \subseteq DOMAIN decls
  /\ \A id \in DOMAIN code : code[id].sig \in Sig /\ code[id].calls \subseteq Site
  /\ \A j \in DOMAIN open : open[j].id \in DOMAIN decls /\ open[j].calls \subseteq Site
  /\ ids \in [Helper -> DOMAIN decls \cup {NoId}]
  /\ given \subseteq DOMAIN decls
  /\ builds \in 0 .. MaxEffort

\* The result of a build says what became of the function, nested builds of
\* the same name included: it is defined after success, after a failure of the
\* disassembly alone, and if somebody else had defined it; it is not defined,
\* and the build can be tried again, after a compilation error.
AnswerTruthful ==
  /\ answer.err \in {"none", "Disasm", "DuplicateDefinition"} =>
       answer.id \in DOMAIN code \/ answer.id = NoId
  /\ answer.err \in {"Compilation", "InvalidImportDefinition"} =>
       answer.id \notin DOMAIN code

\* finalize_definitions panics only on a helper nobody registered, whose name
\* the process does not have either: a FuncId a build returned can be called
\* from any later body.
FinalizeSafe ==
  phase = "unresolved" =>
    \E s \in PendingSites :
      s.helper # "none" /\ HelperName[s.helper] \notin DOMAIN symbols \cup ProcessSymbol

\* A linked call was compiled for the signature of the code it reaches, and
\* the call of a helper whose NAME no other helper has reaches that helper or
\* a function built under its name; a stranger of that name in the process only
\* if the helper was never registered.
CallsAgree ==
  \A id \in DOMAIN links : \A s \in DOMAIN links[id] :
    LET t == links[id][s]
        Alone == \A h \in Helper \ {s.helper} : HelperName[h] # HelperName[s.helper]
    IN  /\ t.kind # "unresolved"
        /\ t.kind = "jit" => code[t.of].sig = s.sig
        /\ (s.helper # "none" /\ Alone) =>
             \/ t = [kind |-> "host", of |-> s.helper]
             \/ t.kind = "jit" /\ decls[t.of].name = HelperName[s.helper]
             \/ t.kind = "process" /\ HelperName[s.helper] \in ProcessSymbol \ DOMAIN symbols

Grows ==
  /\ DOMAIN decls \subseteq DOMAIN decls'
  /\ \A id \in DOMAIN decls :
       /\ decls'[id].name = decls[id].name /\ decls'[id].sig = decls[id].sig
       /\ decls'[id].linkage = "Import" => decls[id].linkage = "Import"
  /\ DOMAIN code \subseteq DOMAIN code' /\ \A id \in DOMAIN code : code'[id] = code[id]
  /\ DOMAIN links \subseteq DOMAIN links' /\ \A id \in DOMAIN links : links'[id] = links[id]
  /\ given \subseteq given'

\* What a step has promised no later one takes back, whatever fails or is built
\* again: a FuncId keeps its name and signature and does not turn into an
\* import, compiled code and its links stay as they are, and an id the client
\* was given stays given.
NothingTakenBack == [][Grows]_vars
=============================================================================
