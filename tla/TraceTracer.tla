---------------------------- MODULE TraceTracer ----------------------------
(***************************************************************************)
(* The call tracer TraceTracer (core/evm_trace.cpp) of the trace_* methods *)
(* (the "trace" of trace_replay*, trace_block, trace_filter).  Each        *)
(* callback is an operator that takes the tracer's state and the         *)
(* callback's arguments and returns the record of the tracer's new        *)
(* fields; EvmTracers drives the callbacks.                                *)
(***************************************************************************)
EXTENDS Integers, Sequences, SequencesExt

CONSTANTS
    InitialAccounts   \* the accounts of initial_ibs, the state the tracer is
                      \* constructed with (the block's pre-state)

Statuses == {"SUCCESS", "REVERT", "FAIL", "UNDEFINED"}
\* The statuses the tracer maps to an error with the result reset.
\* UNDEFINED is UNDEFINED_INSTRUCTION (VmTraceTracer treats it apart); FAIL
\* stands for the others: OUT_OF_GAS, STACK_OVERFLOW, INVALID_INSTRUCTION,
\* STACK_UNDERFLOW, BAD_JUMP_DESTINATION and the default case.
Failures == {"FAIL", "UNDEFINED"}
NoGas == 0

VARIABLES
    traces_,            \* TraceTracer::traces_
    index_stack_,       \* TraceTracer::index_stack_, top at the end
    start_gas_,         \* TraceTracer::start_gas_, top at the end
    created_address_,   \* TraceTracer::created_address_
    current_depth_,     \* TraceTracer::current_depth_
    initial_gas_        \* TraceTracer::initial_gas_

tracer == <<traces_, index_stack_, start_gas_, created_address_, current_depth_, initial_gas_>>

Top(s) == s[Len(s)]

\* A Trace as on_execution_start builds it.  result = FALSE is a reset
\* trace_result; code / output say which optional of it is engaged.
NewTrace(isCreate) ==
    [type |-> IF isCreate THEN "create" ELSE "call",
     trace_address |-> <<>>, sub_traces |-> 0, error |-> "",
     result |-> TRUE, code |-> isCreate, output |-> ~isCreate, gas_used |-> NoGas]

TracerInit ==
    /\ traces_ = <<>> /\ index_stack_ = <<>> /\ start_gas_ = <<>>
    /\ created_address_ = {} /\ current_depth_ = 0 /\ initial_gas_ = NoGas

-----------------------------------------------------------------------------
(* TraceTracer callbacks.  Each takes the tracer state and returns the     *)
(* record of its new fields.                                               *)

\* Seeded fault for TracesMatchCallTree: the calling trace's sub_traces
\* is not counted.
CountSubNone(ts, calling) == ts

\* calling_trace.sub_traces++.
CountSub(ts, calling) == [ts EXCEPT ![calling].sub_traces = @ + 1]

\* on_execution_start for a message of depth `depth` to `recipient` running
\* the code of `codeAddress`; `gas` is msg.gas.  The tracer calls a frame a
\* creation when its recipient did not exist, was not created before in the
\* transaction and is not the code address.
OnExecutionStart(depth, recipient, codeAddress, gas) ==
    LET isCreate == recipient \notin InitialAccounts /\ recipient \notin created_address_
                    /\ recipient # codeAddress
        index == Len(traces_) + 1
        calling == Top(index_stack_)
        linked == depth > 0 /\ index_stack_ # <<>>
        t0 == NewTrace(isCreate)
        t1 == IF linked
              THEN [t0 EXCEPT !.trace_address = traces_[calling].trace_address
                                                \o <<traces_[calling].sub_traces>>]
              ELSE t0
        ts == IF linked THEN CountSub(traces_, calling) ELSE traces_
    IN  [traces |-> Append(ts, t1),
         index_stack |-> Append(index_stack_, index),
         start_gas |-> Append(start_gas_, gas),
         created_address |-> IF isCreate THEN created_address_ \cup {recipient}
                             ELSE created_address_,
         current_depth |-> depth,
         initial_gas |-> IF depth = 0 THEN gas ELSE initial_gas_]

\* Seeded fault for NoUndefinedBehaviour: REVERT handled with the failures,
\* resetting the result.
FinishedRevertResets(t, status, gas) ==
    CASE status = "SUCCESS" -> [t EXCEPT !.gas_used = gas]
      [] status \in {"REVERT"} \cup Failures -> [t EXCEPT !.error = "Failed", !.result = FALSE]

\* The status switch shared by on_execution_end and on_reward_granted.
Finished(t, status, gas) ==
    CASE status = "SUCCESS" -> [t EXCEPT !.gas_used = gas]
      [] status = "REVERT" -> [t EXCEPT !.error = "Reverted", !.gas_used = gas]
      [] status \in Failures -> [t EXCEPT !.error = "Failed", !.result = FALSE]

\* on_execution_end: frames traced as calls are popped here, creations in
\* on_creation_completed.  Reading trace_result->code of a reset result is
\* undefined.  The output/code bytes are not modelled.
OnExecutionEnd(status) ==
    LET index == Top(index_stack_)
        t == traces_[index]
    IN  [ub |-> ~t.result,
         traces |-> [traces_ EXCEPT ![index] = Finished(t, status, Top(start_gas_))],
         index_stack |-> IF t.code THEN index_stack_ ELSE Front(index_stack_),
         start_gas |-> IF t.code THEN start_gas_ ELSE Front(start_gas_),
         current_depth |-> current_depth_ - 1]

\* on_creation_completed: pop the top frame and set its gas_used through
\* trace_result, undefined if that result was reset.
OnCreationCompleted ==
    LET index == Top(index_stack_)
        t == traces_[index]
    IN  [ub |-> ~t.result,
         traces |-> [traces_ EXCEPT ![index].gas_used = Top(start_gas_)],
         index_stack |-> Front(index_stack_),
         start_gas |-> Front(start_gas_)]

=============================================================================
