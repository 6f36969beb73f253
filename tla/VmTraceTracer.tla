--------------------------- MODULE VmTraceTracer ---------------------------
(***************************************************************************)
(* The VM tracer VmTraceTracer (core/evm_trace.cpp) of the "vmTrace"       *)
(* trace type.  It writes one VmTrace per frame: the frame's ops, each     *)
(* with its hierarchical index "tx-d0-d1-...-k", and under every op that   *)
(* started a frame (or ran a precompile) the sub-trace of that frame.     *)
(* VmTrace objects are numbered: 1 is vm_trace_, the tracer's result; the  *)
(* others are owned through op.sub (std::shared_ptr).  traces_stack_ holds *)
(* plain references to them.  An index prefix is kept as the sequence of   *)
(* its numbers.  Each op keeps its gas figures: gas_cost, trace_ex.used,  *)
(* its depth and precompiled_call_gas.  The memory, stack and storage     *)
(* copies and call_gas_cap (written, never read back) are not modelled.   *)
(***************************************************************************)
EXTENDS Integers, Sequences, SequencesExt

CONSTANTS
    TxIndex     \* transaction_index_: the transaction's index in its block,
                \* -1 when the tracer traces a single call

\* What op.sub holds: nothing, or the empty VmTrace of a precompile.
NoSub == 0
PrecompileSub == -1

\* The ops whose gas_cost on_execution_start charges with the gas the
\* frame they start receives (STATICCALL is modelled by CALL).
NestedCostOps == {"CALL", "DELEGATECALL"}

VARIABLES
    vm_traces,      \* VmTrace objects: number -> its ops
    traces_stack_,  \* VmTraceTracer::traces_stack_, top at the end
    index_prefix_,  \* VmTraceTracer::index_prefix_, top at the end
    vm_start_gas_   \* VmTraceTracer::start_gas_, top at the end

vmtracer == <<vm_traces, traces_stack_, index_prefix_, vm_start_gas_>>

\* The tracer is constructed over an empty vm_trace_.
VmTracerInit ==
    /\ vm_traces = <<<<>>>>
    /\ traces_stack_ = <<>>
    /\ index_prefix_ = <<>>
    /\ vm_start_gas_ = <<>>

VmTop(s) == s[Len(s)]

\* The tracer's fields as one record: the callbacks below take it and
\* return it updated, so that the callbacks of one EVM step compose.
VmState == [traces |-> vm_traces, stack |-> traces_stack_, prefix |-> index_prefix_,
            start |-> vm_start_gas_]
VmSet(v) == /\ vm_traces' = v.traces /\ traces_stack_' = v.stack
            /\ index_prefix_' = v.prefix /\ vm_start_gas_' = v.start

-----------------------------------------------------------------------------
(* VmTraceTracer callbacks.                                                *)

\* The prefix of the top frame's ops: "" or "tx-".
TxPrefix == IF TxIndex = -1 THEN <<>> ELSE <<TxIndex>>

\* traces_stack_.top(): the VmTrace of the running frame.
Caller(v) == VmTop(v.stack)

\* Seeded fault for VmTraceMatchesExecution: the sub-trace's prefix takes
\* the number of ops instead of the index of the last one.
SubPrefixCount(p, k) == p \o <<k>>

\* index_prefix + to_string(vm_trace.ops.size() - 1) + "-".
SubPrefix(p, k) == p \o <<k - 1>>

\* on_execution_start of a frame of depth `depth` given `gas`: push the
\* start gas.  The top frame writes into vm_trace_ under the transaction's
\* prefix.  A nested frame (started once vm_trace_ has ops) gets a new
\* VmTrace as the sub of the current trace's last op, the call that
\* started it, under the prefix of that op's index; a CALL or DELEGATECALL
\* takes the frame's depth and is charged with the gas the frame receives.
VmOnExecutionStart(v, depth, gas) ==
    LET w == [v EXCEPT !.start = Append(@, gas)]
    IN
    IF depth = 0
    THEN [w EXCEPT !.stack = Append(@, 1), !.prefix = Append(@, TxPrefix)]
    ELSE IF v.traces[1] # <<>>
    THEN LET t == Caller(v)
             k == Len(v.traces[t])
             n == Len(v.traces) + 1
             op == v.traces[t][k]
             charged == IF op.op_code \in NestedCostOps
                        THEN [op EXCEPT !.depth = depth, !.gas_cost = @ - gas]
                        ELSE op
         IN  [w EXCEPT !.traces = Append([v.traces EXCEPT ![t][k] = [charged EXCEPT !.sub = n]], <<>>),
                       !.stack = Append(v.stack, n),
                       !.prefix = Append(v.prefix, SubPrefix(VmTop(v.prefix), k))]
    ELSE w

\* Seeded fault for VmGasAccounted: a call's gas is settled again when its
\* caller resumes, whatever depth the call took.
SettleAnyDepth(op, gasLeft, depth) ==
    IF op.precompiled THEN [op EXCEPT !.gas_cost = @ - op.pgas, !.used = gasLeft]
    ELSE [op EXCEPT !.gas_cost = @ - gasLeft, !.used = gasLeft]

\* The previous op's gas once the next one starts: the precompile's gas,
\* or the gas the op left if it ran at this depth; used is the gas left.
Settle(op, gasLeft, depth) ==
    CASE op.precompiled -> [op EXCEPT !.gas_cost = @ - op.pgas, !.used = gasLeft]
      [] op.depth = depth -> [op EXCEPT !.gas_cost = @ - gasLeft, !.used = gasLeft]
      [] OTHER -> [op EXCEPT !.used = gasLeft]

\* on_instruction_start with `gasLeft` before the instruction, at `depth`:
\* settle the current trace's last op, then append the op, its gas_cost
\* the gas left, its index the prefix and its position.
VmOnInstructionStart(v, code, gasLeft, depth) ==
    LET t == VmTop(v.stack)
        ops == v.traces[t]
        settled == IF ops = <<>> THEN ops
                   ELSE [ops EXCEPT ![Len(ops)] = Settle(@, gasLeft, depth)]
    IN  [v EXCEPT !.traces[t] =
            Append(settled, [op_code |-> code, idx |-> VmTop(v.prefix) \o <<Len(ops)>>,
                             sub |-> NoSub, precompiled |-> FALSE, pgas |-> 0,
                             gas_cost |-> gasLeft, used |-> 0, depth |-> depth])]

\* on_precompiled_run with the precompile's `gas`: the last op of
\* vm_trace_ gets it as precompiled_call_gas and a new empty VmTrace as its
\* sub, releasing the one it held.
VmOnPrecompiledRun(v, gas) ==
    IF v.traces[1] # <<>>
    THEN [v EXCEPT !.traces[1][Len(v.traces[1])].sub = PrecompileSub,
                   !.traces[1][Len(v.traces[1])].precompiled = TRUE,
                   !.traces[1][Len(v.traces[1])].pgas = gas]
    ELSE v

\* The status switch on the last op, with the frame's start gas and the
\* result's gas_left (OUT_OF_GAS sets the same figures as the default).
EndGas(op, status, start, gasLeft) ==
    IF status = "UNDEFINED"
    THEN LET cost == start - op.gas_cost
         IN  [op EXCEPT !.gas_cost = cost, !.used = op.gas_cost - cost]
    ELSE [op EXCEPT !.gas_cost = @ - gasLeft, !.used = gasLeft]

\* on_execution_end: pop the trace, the start gas and the prefix; a trace
\* whose only op is STOP is emptied, any other has its last op's gas set
\* by the status.
VmOnExecutionEnd(v, status, gasLeft) ==
    LET t == VmTop(v.stack)
        ops == v.traces[t]
        k == Len(ops)
    IN  [traces |-> CASE k = 0 -> v.traces
                      [] k = 1 /\ ops[1].op_code = "STOP" -> [v.traces EXCEPT ![t] = <<>>]
                      [] OTHER -> [v.traces EXCEPT ![t][k] =
                                      EndGas(@, status, VmTop(v.start), gasLeft)],
         stack |-> Front(v.stack),
         prefix |-> Front(v.prefix),
         start |-> Front(v.start)]

-----------------------------------------------------------------------------
(* Ownership: a VmTrace is alive while vm_trace_ reaches it through subs;  *)
(* a sub is always numbered after the trace that holds it.                 *)

RECURSIVE Owned(_)
Owned(t) ==
    \/ t = 1
    \/ \E p \in 1..(t - 1) : /\ \E k \in DOMAIN vm_traces[p] : vm_traces[p][k].sub = t
                             /\ Owned(p)

=============================================================================
