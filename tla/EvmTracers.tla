----------------------------- MODULE EvmTracers -----------------------------
(***************************************************************************)
(* One transaction executed with the tracers trace_block_transactions,     *)
(* trace_call and execute attach (core/evm_trace.cpp): VmTraceTracer and   *)
(* TraceTracer receive the same callbacks.  The EVM is not in this         *)
(* repository; it is modelled from the callback order of spec 4.9:         *)
(* on_execution_start when a frame starts, on_instruction_start before     *)
(* each instruction, on_precompiled_run for a call to a precompile,        *)
(* on_execution_end when a frame returns, on_creation_completed after a    *)
(* creation's end, and on_reward_granted after the top frame.  The EVM    *)
(* also keeps the truth the traces must reproduce: the call tree (path,   *)
(* children), each frame's instructions and the position of the call that *)
(* started it.  TraceTracer is given a frame's number as its start gas, so *)
(* a gas_used records whose start gas was used.  VmTraceTracer is given    *)
(* the gas of a small EVM: every instruction has a fixed cost, a call      *)
(* forwards half of what is left after its cost, a precompile uses a fixed *)
(* amount, and the caller gets back what the callee has left.              *)
(***************************************************************************)
EXTENDS TraceTracer, VmTraceTracer

CONSTANTS
    Addrs,              \* account addresses
    Existing,           \* accounts that exist when the transaction starts
    Contracts,          \* the ones of them that have code
    NoAddr,             \* the zero code_address of a creation message
    MaxFrames,          \* frames started in the transaction (bound)
    MaxDepth,           \* call depth (bound)
    MaxExtraOps,        \* instructions other than a frame's last one and the
                        \* calls that start frames (bound)
    TxGas,              \* the gas the top frame is given
    CallStatuses,       \* results a call frame may end with
    CreateStatuses,     \* results a creation frame may end with
    PrefundedCreate,    \* a CREATE may target an existing account without code
    NestedPrecompiles   \* a frame below the top one may call a precompile

Kinds == {"CALL", "DELEGATECALL", "CREATE"}

ASSUME /\ InitialAccounts \subseteq Existing /\ Contracts \subseteq Existing
       /\ Existing \subseteq Addrs /\ NoAddr \notin Addrs
       /\ CallStatuses \subseteq Statuses /\ CreateStatuses \subseteq Statuses

VARIABLES
    frames,     \* active frames, innermost last
    path,       \* frame number -> its address in the call tree
    children,   \* frame number -> number of frames it started
    instrs,     \* frame number -> its instructions: opcode and the frame it
                \* started (NoSub, PrecompileSub or a frame number)
    oppath,     \* frame number -> positions of the calls leading to it
    created,    \* addresses created in this transaction
    deployed,   \* the ones whose creation succeeded (they have code)
    results,    \* frame number -> its status and gas_left, once it has ended
    extraOps,   \* instructions counted against MaxExtraOps
    txStatus,   \* result of the top frame, "none" while running
    rewarded,   \* on_reward_granted has been called
    ub          \* TraceTracer has done something undefined

evm == <<frames, path, children, instrs, oppath, created, deployed, results, extraOps,
         txStatus, rewarded>>
vars == <<tracer, vmtracer, evm, ub>>

Init ==
    /\ TracerInit /\ VmTracerInit
    /\ frames = <<>> /\ path = <<>> /\ children = <<>> /\ instrs = <<>> /\ oppath = <<>>
    /\ created = {} /\ deployed = {} /\ results = <<>> /\ extraOps = 0
    /\ txStatus = "none" /\ rewarded = FALSE /\ ub = FALSE

Depth == Len(frames)
Current == Top(frames)
\* The current frame can execute an instruction: it runs code.
Executing == ~ub /\ frames # <<>> /\ Current.running /\ Current.hasCode

\* The gas of the small EVM: an instruction's cost, the gas a call forwards
\* from what is left after its cost, and the gas a precompile uses.
OpGas(code) == IF code = "OTHER" THEN 2 ELSE IF code = "STOP" THEN 0 ELSE 1
Forwarded(g) == (g - 1) \div 2
PrecompileGas == 1

\* Both tracers' on_execution_start for a frame of the given kind to `a`,
\* VmTraceTracer's from the state `v`; the new frame is numbered after the
\* ones before it.
StartFrame(kind, a, v, gas) ==
    LET recipient == IF kind = "DELEGATECALL" THEN Current.recipient ELSE a
        codeAddress == IF kind = "CREATE" THEN NoAddr ELSE a
        id == Len(path) + 1
        st == OnExecutionStart(Depth, recipient, codeAddress, id)
    IN  /\ traces_' = st.traces /\ index_stack_' = st.index_stack
        /\ start_gas_' = st.start_gas /\ created_address_' = st.created_address
        /\ current_depth_' = st.current_depth /\ initial_gas_' = st.initial_gas
        /\ VmSet(VmOnExecutionStart(v, Depth, gas))
        /\ frames' = Append(IF frames = <<>> THEN frames
                             ELSE [frames EXCEPT ![Depth].gas = @ - OpGas(kind) - gas],
                             [id |-> id, kind |-> kind, recipient |-> recipient,
                              hasCode |-> kind = "CREATE" \/ a \in Contracts \cup deployed,
                              running |-> TRUE, status |-> "none", gas |-> gas])
        /\ results' = Append(results, [status |-> "none", gas_left |-> 0])
        /\ path' = Append(path, IF frames = <<>> THEN <<>>
                                ELSE path[Current.id] \o <<children[Current.id]>>)
        /\ children' = Append(IF frames = <<>> THEN children
                              ELSE [children EXCEPT ![Current.id] = @ + 1], 0)
        /\ oppath' = Append(oppath, IF frames = <<>> THEN <<>>
                                    ELSE oppath[Current.id] \o <<Len(instrs[Current.id])>>)
        /\ created' = IF kind = "CREATE" THEN created \cup {a} ELSE created

\* A message may target `a`: a DELEGATECALL runs another account's code in
\* the caller's context; a CREATE needs an address without code that is
\* new (or only holds a balance), else it fails before any callback.
Target(kind, a) ==
    /\ kind = "DELEGATECALL" => a # Current.recipient
    /\ kind = "CREATE" => /\ a \notin created \cup Contracts
                          /\ PrefundedCreate \/ a \notin Existing

\* The current frame's instructions with one more, the gas left before it
\* and the gas the frame or precompile it started received.
Executed(code, child, recv) ==
    [instrs EXCEPT ![Current.id] =
        Append(@, [code |-> code, child |-> child, before |-> Current.gas, recv |-> recv])]

\* on_instruction_start of both tracers (TraceTracer's only reads opcodes).
VmInstruction(code) == VmOnInstructionStart(VmState, code, Current.gas, Depth - 1)

-----------------------------------------------------------------------------
(* EVM steps.                                                              *)

\* The transaction's top frame: a call or a creation.
StartTransaction ==
    /\ ~ub /\ path = <<>>
    /\ \E kind \in {"CALL", "CREATE"}, a \in Addrs :
          /\ Target(kind, a)
          /\ StartFrame(kind, a, VmState, TxGas)
    /\ instrs' = <<<<>>>>
    /\ UNCHANGED <<deployed, extraOps, txStatus, rewarded, ub>>

\* An instruction that starts no frame: any other instruction, or a call
\* that fails before a frame starts (depth limit, balance, collision).
Step ==
    /\ Executing /\ extraOps < MaxExtraOps
    /\ \E code \in {"OTHER"} \cup Kinds :
          /\ Current.gas >= OpGas(code)
          /\ VmSet(VmInstruction(code))
          /\ instrs' = Executed(code, NoSub, 0)
          /\ frames' = [frames EXCEPT ![Depth].gas = @ - OpGas(code)]
    /\ extraOps' = extraOps + 1
    /\ UNCHANGED <<tracer, path, children, oppath, created, deployed, results,
                   txStatus, rewarded, ub>>

\* A call to a precompiled contract: its instruction, then
\* on_precompiled_run with the gas forwarded to it (TraceTracer does
\* nothing on it); the caller gets back what the precompile left.
Precompile ==
    /\ Executing /\ extraOps < MaxExtraOps
    /\ NestedPrecompiles \/ Depth = 1
    /\ Current.gas >= 1
    /\ \E code \in {"CALL", "DELEGATECALL"} :
          LET fwd == Forwarded(Current.gas)
              left == IF fwd >= PrecompileGas THEN fwd - PrecompileGas ELSE 0
          IN  /\ VmSet(VmOnPrecompiledRun(VmInstruction(code), fwd))
              /\ instrs' = Executed(code, PrecompileSub, fwd)
              /\ frames' = [frames EXCEPT ![Depth].gas = @ - OpGas(code) - fwd + left]
    /\ extraOps' = extraOps + 1
    /\ UNCHANGED <<tracer, path, children, oppath, created, deployed, results,
                   txStatus, rewarded, ub>>

\* A CALL, DELEGATECALL or CREATE instruction that starts a frame: its
\* on_instruction_start, then the new frame's on_execution_start.
CallFrame ==
    /\ Executing /\ Depth < MaxDepth /\ Len(path) < MaxFrames
    /\ Current.gas >= 1
    /\ \E kind \in Kinds, a \in Addrs :
          /\ Target(kind, a)
          /\ StartFrame(kind, a, VmInstruction(kind), Forwarded(Current.gas))
          /\ instrs' = Append(Executed(kind, Len(path) + 1, Forwarded(Current.gas)), <<>>)
    /\ UNCHANGED <<deployed, extraOps, txStatus, rewarded, ub>>

\* The current frame executes its last instruction (STOP, or RETURN, REVERT
\* or a failing one) and returns with a status; a frame without code runs
\* only the implicit STOP.  A frame that succeeds or reverts keeps the gas
\* its last instruction leaves, a failing one none.  A CREATE frame stays
\* on the EVM stack until its creation completes; a call's caller resumes
\* with the gas the callee left.
EndFrame ==
    /\ ~ub /\ frames # <<>> /\ Current.running
    /\ \E status \in (IF Current.kind = "CREATE" THEN CreateStatuses ELSE CallStatuses),
          last \in {"STOP", "OTHER"} :
          /\ IF Current.hasCode THEN status # "SUCCESS" => last = "OTHER"
             ELSE status = "SUCCESS" /\ last = "STOP"
          /\ status \notin Failures => Current.gas >= OpGas(last)
          /\ IF index_stack_ = <<>>
             THEN ub' = TRUE /\ UNCHANGED <<traces_, index_stack_, start_gas_, current_depth_>>
             ELSE LET st == OnExecutionEnd(status)
                  IN  /\ ub' = st.ub
                      /\ traces_' = st.traces /\ index_stack_' = st.index_stack
                      /\ start_gas_' = st.start_gas /\ current_depth_' = st.current_depth
          /\ LET left == IF status \in Failures THEN 0 ELSE Current.gas - OpGas(last)
             IN  /\ VmSet(VmOnExecutionEnd(VmInstruction(last), status, left))
                 /\ results' = [results EXCEPT ![Current.id] = [status |-> status, gas_left |-> left]]
                 /\ frames' = CASE Current.kind = "CREATE" ->
                                    [frames EXCEPT ![Depth].running = FALSE,
                                                   ![Depth].status = status, ![Depth].gas = left]
                                 [] Depth = 1 -> <<>>
                                 [] OTHER -> [Front(frames) EXCEPT ![Depth - 1].gas = @ + left]
          /\ instrs' = Executed(last, NoSub, 0)
          /\ txStatus' = IF Depth = 1 THEN status ELSE txStatus
    /\ UNCHANGED <<created_address_, initial_gas_, path, children, oppath, created, deployed,
                   extraOps, rewarded>>

\* The creation has completed (code deposited on success); the caller
\* resumes.  Only TraceTracer acts on on_creation_completed.
CreationCompleted ==
    /\ ~ub /\ frames # <<>> /\ ~Current.running
    /\ IF index_stack_ = <<>>
       THEN UNCHANGED <<traces_, index_stack_, start_gas_, ub>>
       ELSE LET st == OnCreationCompleted
            IN  /\ ub' = st.ub
                /\ traces_' = st.traces /\ index_stack_' = st.index_stack
                /\ start_gas_' = st.start_gas
    /\ frames' = IF Depth = 1 THEN <<>>
                 ELSE [Front(frames) EXCEPT ![Depth - 1].gas = @ + Current.gas]
    /\ deployed' = IF Current.status = "SUCCESS" THEN deployed \cup {Current.recipient}
                   ELSE deployed
    /\ UNCHANGED <<created_address_, current_depth_, initial_gas_, vmtracer, path, children,
                   instrs, oppath, created, results, extraOps, txStatus, rewarded>>

\* on_reward_granted with the transaction's result: the first trace gets
\* the gas used from initial_gas_, or is reset on failure.
RewardGranted ==
    /\ ~ub /\ frames = <<>> /\ txStatus # "none" /\ ~rewarded
    /\ IF traces_ = <<>>
       THEN UNCHANGED <<traces_, ub>>
       ELSE /\ ub' = (txStatus \notin Failures /\ ~traces_[1].result)
            /\ traces_' = [traces_ EXCEPT ![1] = Finished(@, txStatus, initial_gas_)]
    /\ rewarded' = TRUE
    /\ UNCHANGED <<index_stack_, start_gas_, created_address_, current_depth_, initial_gas_,
                   vmtracer, frames, path, children, instrs, oppath, created, deployed,
                   results, extraOps, txStatus>>

Next ==
    \/ StartTransaction \/ Step \/ Precompile \/ CallFrame
    \/ EndFrame \/ CreationCompleted \/ RewardGranted

Spec == Init /\ [][Next]_vars

-----------------------------------------------------------------------------
(* Properties.                                                             *)

\* TraceTracer: every trace describes its own frame: its trace_address is
\* the frame's path in the call tree, its sub_traces the number of frames
\* it started, and a gas_used it reports was computed from its own start
\* gas.  All three depend on index_stack_ and start_gas_ staying in step
\* with the EVM's frames across on_execution_end and on_creation_completed.
TracesMatchCallTree ==
    \A i \in DOMAIN traces_ :
        /\ traces_[i].trace_address = path[i]
        /\ traces_[i].sub_traces = children[i]
        /\ traces_[i].result /\ traces_[i].gas_used # NoGas => traces_[i].gas_used = i

\* TraceTracer: no callback reads an empty stack's top or writes through a
\* reset trace_result.
NoUndefinedBehaviour == ~ub

\* VmTraceTracer: every VmTrace on traces_stack_ is still owned by the
\* trace tree, so the references the tracer writes through are valid.
VmTracesLive == \A i \in DOMAIN traces_stack_ : Owned(traces_stack_[i])

\* VmTraceTracer: each frame's VmTrace lists the frame's instructions in
\* order, each indexed by the transaction's prefix, the positions of the
\* calls leading to the frame and its own position, with the sub-trace of
\* the frame (or precompile) it started; a frame that only ran STOP has
\* no ops.
ExpectedOps(f) ==
    [k \in DOMAIN instrs[f] |->
        [op_code |-> instrs[f][k].code, idx |-> TxPrefix \o oppath[f] \o <<k - 1>>,
         sub |-> instrs[f][k].child, precompiled |-> instrs[f][k].child = PrecompileSub]]
VmOpShape(ops) ==
    [k \in DOMAIN ops |-> Restrict(ops[k], {"op_code", "idx", "sub", "precompiled"})]
VmTraceMatchesExecution ==
    \A f \in DOMAIN instrs :
        /\ f \in DOMAIN vm_traces
        /\ VmOpShape(vm_traces[f]) =
              IF Len(instrs[f]) = 1 /\ instrs[f][1].code = "STOP" THEN <<>> ELSE ExpectedOps(f)

\* VmTraceTracer (spec 4.9): an op's gas_cost is the gas left before it
\* minus the gas left after it, except a CALL or DELEGATECALL that started
\* a frame or ran a precompile, charged with the gas that callee received;
\* its trace_ex.used is the gas left after it.  The last op of a frame is
\* settled by on_execution_end with the result's gas_left (UNDEFINED_-
\* INSTRUCTION has its own formula).  The figures of one op are written by
\* the next on_instruction_start, the callee's on_execution_start, the
\* precompile's run and the frame's end, across frames of several depths.
GasAfter(f, k) ==
    IF k < Len(instrs[f]) THEN instrs[f][k + 1].before ELSE results[f].gas_left
ExpectedCost(f, k) ==
    IF instrs[f][k].code \in NestedCostOps /\ instrs[f][k].child # NoSub
    THEN instrs[f][k].before - instrs[f][k].recv
    ELSE instrs[f][k].before - GasAfter(f, k)
VmGasAccounted ==
    \A f \in DOMAIN instrs : f \in DOMAIN vm_traces /\ vm_traces[f] # <<>> =>
        \A k \in DOMAIN instrs[f] :
            (k < Len(instrs[f]) \/ results[f].status \notin {"none", "UNDEFINED"}) =>
                /\ vm_traces[f][k].gas_cost = ExpectedCost(f, k)
                /\ vm_traces[f][k].used = GasAfter(f, k)

\* VmTraceTracer: trace_ex.used, the gas an op left, is never negative.
\* on_execution_end's UNDEFINED_INSTRUCTION branch computes it as the gas
\* before the op minus the gas the frame used before it.
VmUsedNonNegative ==
    \A f \in DOMAIN vm_traces : \A k \in DOMAIN vm_traces[f] : vm_traces[f][k].used >= 0

=============================================================================
