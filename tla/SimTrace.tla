------------------------------- MODULE SimTrace -------------------------------
(***************************************************************************)
(* The trace of a run: what RunState.trace records when Simulator.trace is  *)
(* set, one line per arm of Simulator::step and per halt of the run loop,   *)
(* with the previews format_call_args makes of the (pointer, length) pairs  *)
(* among the arguments of a call.                                           *)
(*                                                                          *)
(* The trace is kept beside the interpreter of Sim: every action of Sim is  *)
(* taken as it is, and says in addition which lines it pushes.  A line is   *)
(* the data its text shows, not the text.                                   *)
(***************************************************************************)
EXTENDS Sim

CONSTANTS
    TraceSettings,  \* values the caller gives Simulator.trace
    PreviewMax,     \* longest text format_call_args previews: 64 in the program
    Utf8(_)         \* str::from_utf8 accepts these bytes

ASSUME TraceAssumption == TraceSettings \subseteq BOOLEAN /\ PreviewMax \in Nat

\* No Vec<u8> is longer than isize::MAX.
ASSUME BufferAssumption == \A m \in Memories : Len(m) < UsizeMod \div 2

VARIABLES
    record_trace,   \* Simulator.trace
    trace           \* RunState.trace, then SimResult.trace

tvars == <<vars, record_trace, trace>>

(***************************************************************************)
(* format_call_args                                                         *)
(***************************************************************************)
\* One element of `parts`: a value, and the text it is shown to point at.
Plain(v)          == [val |-> v, preview |-> FALSE, text |-> <<>>]
Pointing(v, text) == [val |-> v, preview |-> TRUE, text |-> text]

\* Faulty variant: the addition wraps around.
PreviewEnd_wrapping(lo, len) == (lo + len) % UsizeMod

\* lo.saturating_add(len)
PreviewEnd(lo, len) == IF lo + len < UsizeMod THEN lo + len ELSE UsizeMod - 1

\* Arguments i and i + 1 look like a pointer into memory and a length.
FatPointer(vs, i) ==
  /\ i < Len(vs)
  /\ vs[i].ty = "I64" /\ vs[i + 1].ty = "I64"
  /\ vs[i + 1].n \in 1 .. PreviewMax

Start(v)      == as_u64(v) % UsizeMod
Slice(m, i, vs) ==
  SubSeq(m, Start(vs[i]) + 1, PreviewEnd(Start(vs[i]), vs[i + 1].n))

Previewed(vs, i, m) ==
  /\ FatPointer(vs, i)
  /\ PreviewEnd(Start(vs[i]), vs[i + 1].n) <= Len(m)
  /\ Utf8(Slice(m, i, vs))

\* Faulty variant: the cursor moves past the pointer only.
format_call_args_one(vs, m) ==
  LET from[i \in 1 .. Len(vs) + 2] ==
        IF i > Len(vs) THEN <<>>
        ELSE IF Previewed(vs, i, m)
        THEN << Pointing(vs[i], Slice(m, i, vs)), Plain(vs[i + 1]) >> \o from[i + 1]
        ELSE << Plain(vs[i]) >> \o from[i + 1]
  IN  from[1]

format_call_args(vs, m) ==
  LET from[i \in 1 .. Len(vs) + 2] ==
        IF i > Len(vs) THEN <<>>
        ELSE IF Previewed(vs, i, m)
        THEN << Pointing(vs[i], Slice(m, i, vs)), Plain(vs[i + 1]) >> \o from[i + 2]
        ELSE << Plain(vs[i]) >> \o from[i + 1]
  IN  from[1]

(***************************************************************************)
(* The lines                                                                *)
(***************************************************************************)
ValueLine(produced) == [kind |-> "value", lhs |-> inst.res, rhs |-> produced]
JumpLine   == [kind |-> "jump", block |-> inst.dst[1].block]
BrifLine   == [kind |-> "brif", cond |-> as_i64(Arg(1)) # 0, block |-> Chosen.block]
ReturnLine == [kind |-> "return", vals |-> [j \in DOMAIN inst.args |-> Arg(j)]]
CallLine   == [kind  |-> "call",
               parts |-> format_call_args([j \in DOMAIN inst.args |-> Arg(j)], mem),
               lhs   |-> inst.res]
HaltLine(e) == [kind |-> "halt", err |-> e, inst |-> <<current, pc>>]

Push(lines) ==
  /\ trace' = IF record_trace THEN trace \o lines ELSE trace
  /\ UNCHANGED record_trace

\* A step that ends in Error adds the line of the run loop to its own.
HaltLines == IF error' = "none" THEN <<>> ELSE << HaltLine(error') >>

(***************************************************************************)
(* The actions of Sim with their lines                                      *)
(***************************************************************************)
\* The arms that fall through to the end of step(): the value line is not
\* reached when the arm returns an error.
Straight == \/ Iconst \/ FloatConst \/ Binary \/ Unary \/ IntCompare
            \/ FloatCompare \/ Select \/ Load

TStraight ==
  /\ Straight
  /\ Push(IF error' = "none"
          THEN << ValueLine([j \in DOMAIN inst.res |-> registers'[inst.res[j]]]) >>
          ELSE HaltLines)

TStore == Store /\ Push(IF error' = "none" THEN << ValueLine(<<>>) >> ELSE HaltLines)

\* The call has pushed its line before a result turns out to have no zero.
TCall == Call /\ Push(<< CallLine >> \o HaltLines)

TJump   == Jump /\ Push(<< JumpLine >>)
TBrif   == Brif /\ Push(<< BrifLine >>)
TReturn == Return /\ Push(<< ReturnLine >>)

THalt    == (Unsupported \/ UndefinedOperand \/ StepLimit) /\ Push(HaltLines)
TFallOff == FallOff /\ Push(<<>>)

\* A run starts with an empty trace, a new simulator with trace = false,
\* which the caller may set.
TRun == CallRun /\ trace' = <<>> /\ UNCHANGED record_trace

TBuild ==
  /\ NewSimulator \/ ReuseMemory
  /\ trace' = <<>>
  /\ record_trace' \in TraceSettings

TInit == Init /\ record_trace \in TraceSettings /\ trace = <<>>

TStep == \/ TStraight \/ TStore \/ TCall \/ TJump \/ TBrif \/ TReturn
         \/ THalt \/ TFallOff

TNext == TStep \/ TRun \/ TBuild

TSpec == TInit /\ [][TNext]_tvars

\* run() is a loop on the caller's thread: once entered it is not preempted
\* for ever.  Nothing obliges the caller to call it.
FairTSpec == TSpec /\ WF_tvars(TStep)

(***************************************************************************)
(* Properties                                                               *)
(***************************************************************************)
\* A reader of a trace, who has the function and its arguments but does not
\* know what any opcode computes: the block, the position and the registers
\* after one more line.  A line that does not fit its place is of no use.
Lost == [block |-> NoBlock, pc |-> 0, regs |-> NoRegisters]

\* After a line that fits instruction i.
FollowAt(f, r, i, line) ==
  LET Went(d)    == [block |-> d.block, pc |-> 1,
                     regs  |-> Bind(r.regs, Code[f].params[d.block],
                                    [j \in DOMAIN d.args |-> r.regs[d.args[j]]])]
      Next1(vals) == [r EXCEPT !.pc = @ + 1, !.regs = Bind(r.regs, i.res, vals)]
      Shown       == [j \in DOMAIN i.args |-> r.regs[i.args[j]]]
      Zeroed      == { k \in DOMAIN i.res :
                         \A j \in 1 .. k : Code[f].vty[i.res[j]] \in Types }
      Zeros       == [k \in Zeroed |-> zero_of(Code[f].vty[i.res[k]])]
      Taken       == i.dst[IF line.cond THEN 1 ELSE 2]
  IN  CASE line.kind = "value" /\ line.lhs = i.res -> Next1(line.rhs)
        [] line.kind = "jump" /\ i.fmt = "Jump" /\ line.block = i.dst[1].block ->
             Went(i.dst[1])
        [] line.kind = "brif" /\ i.fmt = "Brif" /\ line.block = Taken.block ->
             Went(Taken)
        [] line.kind = "call" /\ i.fmt = "Call" /\ line.lhs = i.res
             /\ [j \in DOMAIN line.parts |-> line.parts[j].val] = Shown ->
             [Next1(Zeros) EXCEPT !.pc = IF Zeroed = DOMAIN i.res THEN @ ELSE r.pc]
        [] line.kind = "return" /\ line.vals = Shown -> r
        [] line.kind = "halt" /\ line.inst = <<r.block, r.pc>> -> r
        [] OTHER -> Lost

Follow(f, r, line) ==
  IF r = Lost \/ r.pc > Len(Code[f].body[r.block]) THEN Lost
  ELSE FollowAt(f, r, Code[f].body[r.block][r.pc], line)

\* Where the reader starts, and where the lines of the trace lead.
Beginning ==
  [block |-> Code[func].entry, pc |-> 1,
   regs  |-> Bind(NoRegisters, Code[func].params[Code[func].entry], args)]

Reading ==
  LET upto[k \in 0 .. Len(trace)] ==
        IF k = 0 THEN Beginning ELSE Follow(func, upto[k - 1], trace[k])
  IN  upto[Len(trace)]

\* Where the interpreter is.
Place == [block |-> current, pc |-> pc, regs |-> registers]

\* The trace alone retells the run: following it from the entry block leads
\* to the block, the instruction and the registers the interpreter is at, no
\* line is missing, doubled or out of order, and a call line shows every
\* argument once, in order, whatever pairs of them are previewed.  A call that
\* fails at a result without a zero is shown all the same: the results before
\* that one are then as the line says, and the run stands at the call.
TraceReplays ==
  (record_trace /\ phase # "idle" /\ error # "NoEntryBlock") => Reading = Place

\* A preview is the text its length argument announces: it never ends early
\* or wraps around the address space, and lies in the memory of the run.
PreviewsFit ==
  \A k \in DOMAIN trace :
     trace[k].kind = "call" =>
       \A j \in DOMAIN trace[k].parts :
          trace[k].parts[j].preview =>
            /\ j < Len(trace[k].parts)
            /\ trace[k].parts[j + 1].val = Cast("I64", Len(trace[k].parts[j].text))
            /\ Len(trace[k].parts[j].text) <= Len(mem)
=============================================================================
