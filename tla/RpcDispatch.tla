----------------------------- MODULE RpcDispatch -----------------------------
(***************************************************************************)
(* Functions and their signatures: RpcDispatcher ("sync"), its heir        *)
(* AsyncRpcDispatcher ("async"), which AxonWorker uses, and the builders   *)
(* of requests and responses.  Registering changes state; preparing,       *)
(* dispatching and answering are operators on it.                          *)
(*                                                                         *)
(* A C++ type is its kind: something a header carries, a payload, or one   *)
(* of the parameters the dispatcher supplies ("builder").                  *)
(***************************************************************************)
EXTENDS Naturals, Sequences, FiniteSets

CONSTANTS
    FnIds,          \* function ids
    Functions       \* what may be registered: args, ret, dyn

VARIABLES
    kind,       \* which dispatcher: "sync" or "async"
    fns,        \* functions_ or async_functions_
    sigs,       \* signatures_
    handlers,   \* the worker's registered_handlers_: the payload they receive
    attempts,   \* per id: registrations tried
    orphans     \* ids whose function was bound by a registration that threw

rdVars == <<kind, fns, sigs, handlers, attempts, orphans>>

Serializable == {"int", "tensor", "tensorVec"}
Payloads == {"buf", "vec"}
Nothing == [none |-> TRUE]

RdInit ==
    /\ kind \in {"sync", "async"}
    /\ fns = [i \in FnIds |-> Nothing]
    /\ sigs = [i \in FnIds |-> Nothing]
    /\ handlers = [i \in FnIds |-> "unregistered"]
    /\ attempts = [i \in FnIds |-> 0]
    /\ orphans = {}

-----------------------------------------------------------------------------
(* Signatures.                                                             *)

GetParamType(k) == IF k \in Serializable THEN k ELSE "UNKNOWN"

FillParamTypes(args) ==
    SelectSeq(args, LAMBDA k : GetParamType(k) # "UNKNOWN")

FillReturnTypes(ret) ==
    SelectSeq(ret, LAMBDA k : GetParamType(k) # "UNKNOWN")

\* The first payload; "none" without one.
PayloadFinder(kinds) ==
    LET found == {i \in DOMAIN kinds : kinds[i] \in Payloads}
    IN IF found = {} THEN "none"
       ELSE kinds[CHOOSE i \in found : \A j \in found : i <= j]

\* The result of an asynchronous function is a sender, which is no type a
\* header carries: its signature says nothing about results.
MakeRpcSignature(fn) ==
    [params |-> FillParamTypes(fn.args),
     input |-> PayloadFinder(fn.args),
     returns |-> IF kind = "async" /\ ~fn.dyn THEN <<>>
                 ELSE FillReturnTypes(fn.ret),
     output |-> IF kind = "async" /\ ~fn.dyn THEN "none"
                ELSE PayloadFinder(fn.ret)]

Count(types, k) == Cardinality({i \in DOMAIN types : types[i] = k})

\* FALSE: std::invalid_argument.
ValidateTensorPayloadConstraints(sig) ==
    /\ Count(sig.params, "tensor") = 0 \/ Count(sig.params, "tensorVec") = 0
    /\ Count(sig.params, "tensorVec") <= 1
    /\ sig.input = "buf" => Count(sig.params, "tensor") <= 1
    /\ Count(sig.returns, "tensor") = 0 \/ Count(sig.returns, "tensorVec") = 0
    /\ Count(sig.returns, "tensorVec") <= 1

-----------------------------------------------------------------------------
(* Registering.                                                            *)

EmplaceAt(table, id, v) ==
    IF table[id] = Nothing THEN [table EXCEPT ![id] = v] ELSE table

\* The function is bound before its signature is checked, the signature
\* replaces an earlier one.
RegisterFunction(id, fn) ==
    /\ kind = "sync" /\ ~fn.dyn
    /\ fns' = EmplaceAt(fns, id, fn)
    /\ sigs' = IF ValidateTensorPayloadConstraints(MakeRpcSignature(fn))
               THEN [sigs EXCEPT ![id] = MakeRpcSignature(fn)] ELSE sigs

RegisterDynamicFunction(id, fn) ==
    /\ kind = "sync" /\ fn.dyn
    /\ IF ValidateTensorPayloadConstraints(MakeRpcSignature(fn))
       THEN /\ fns' = EmplaceAt(fns, id, fn)
            /\ sigs' = EmplaceAt(sigs, id, MakeRpcSignature(fn))
       ELSE UNCHANGED <<fns, sigs>>

\* Replacing the signature as the synchronous dispatcher does.
RegisterAsyncFunctionReplaces(id, fn) ==
    /\ kind = "async" /\ ~fn.dyn
    /\ fns' = EmplaceAt(fns, id, fn)
    /\ sigs' = IF ValidateTensorPayloadConstraints(MakeRpcSignature(fn))
               THEN [sigs EXCEPT ![id] = MakeRpcSignature(fn)] ELSE sigs

RegisterAsyncFunction(id, fn) ==
    /\ kind = "async" /\ ~fn.dyn
    /\ fns' = EmplaceAt(fns, id, fn)
    /\ sigs' = IF ValidateTensorPayloadConstraints(MakeRpcSignature(fn))
               THEN EmplaceAt(sigs, id, MakeRpcSignature(fn)) ELSE sigs

RegisterDynamicAsyncFunction(id, fn) ==
    /\ kind = "async" /\ fn.dyn
    /\ fns' = EmplaceAt(fns, id, fn)
    /\ sigs' = IF ValidateTensorPayloadConstraints(MakeRpcSignature(fn))
               THEN EmplaceAt(sigs, id, MakeRpcSignature(fn)) ELSE sigs

\* AxonWorker::RegisterFunction: the handler follows unless the dispatcher
\* threw.  MaxAttempts bounds the registrations of one id.
MaxAttempts == 2

Register(id, fn) ==
    /\ attempts[id] < MaxAttempts
    /\ attempts' = [attempts EXCEPT ![id] = @ + 1]
    /\ \/ RegisterFunction(id, fn)
       \/ RegisterDynamicFunction(id, fn)
       \/ RegisterAsyncFunction(id, fn)
       \/ RegisterDynamicAsyncFunction(id, fn)
    /\ LET valid == ValidateTensorPayloadConstraints(MakeRpcSignature(fn))
       IN /\ handlers' = IF valid /\ handlers[id] = "unregistered"
                         THEN [handlers EXCEPT ![id] = PayloadFinder(fn.args)]
                         ELSE handlers
          /\ orphans' = IF ~valid /\ fns'[id] # fns[id]
                        THEN orphans \cup {id} ELSE orphans
    /\ UNCHANGED kind

IsRegistered(id) == fns[id] # Nothing

GetSignature(id) == sigs[id]

RdNext == \E id \in FnIds, fn \in Functions : Register(id, fn)

-----------------------------------------------------------------------------
(* Requests.                                                               *)

PackArgs(args) == FillParamTypes(args)

\* At most one payload: the code does not compile otherwise.
PrepareRequest(args) ==
    [params |-> PackArgs(args), payload |-> PayloadFinder(args)]

\* FALSE: std::invalid_argument.
Validate(params, sig) ==
    /\ Len(params) = Len(sig.params)
    /\ \A i \in DOMAIN params : params[i] = sig.params[i]

-----------------------------------------------------------------------------
(* Dispatching a request that has arrived with payload ctx.  The outcome   *)
(* is an answer, or, for the asynchronous dispatcher, an error in the      *)
(* sender's error channel.                                                 *)

Answer(results, payload) ==
    [status |-> "OK", results |-> results, payload |-> payload]

\* An answer whose only result is what the exception says.
ErrorAnswer(status) ==
    [status |-> status, results |-> <<"string">>, payload |-> "none"]

ErrorChannel(status) ==
    [status |-> status, results |-> <<>>, payload |-> "none"]

\* GetPrimitive, GetString, GetVector, GetTensor, GetTensorVec and their Move
\* counterparts: whether item i is there and has this type.
GetItem(params, i, type) == i <= Len(params) /\ params[i] = type

\* Whether every argument is found, taking the items in order; items that
\* are left over go unnoticed.
ExtractArgs(args, params) ==
    LET wanted == FillParamTypes(args)
    IN \A i \in DOMAIN wanted : GetItem(params, i, wanted[i])

PackResults(ret) == FillReturnTypes(ret)

PrepareResponse(ret) == Answer(PackResults(ret), PayloadFinder(ret))

\* A wrapper around a typed function; failed(status) is what it makes of an
\* exception.  The payload is cast without a check.
CallTyped(fn, params, ctx, throws, failed(_)) ==
    LET wants == PayloadFinder(fn.args)
    IN CASE wants # "none" /\ ctx = "none" -> failed("INTERNAL")
         [] wants # "none" /\ ctx \notin {"none", wants} ->
              [status |-> "undefined", results |-> <<>>, payload |-> "none"]
         [] OTHER ->
              IF ~ExtractArgs(fn.args, params) \/ throws
              THEN failed("INTERNAL") ELSE PrepareResponse(fn.ret)

MakeRpcWrapper(fn, params, ctx, throws) ==
    CallTyped(fn, params, ctx, throws, ErrorAnswer)

\* What the function throws before it returns its sender, and what the
\* extraction throws, is INVALID_ARGUMENT in InvokeAsyncFunction.
MakeAsyncRpcWrapper(fn, params, ctx, throws) ==
    CallTyped(fn, params, ctx, throws,
              LAMBDA status : ErrorChannel("INVALID_ARGUMENT"))

\* The parameters are handed over as they are, and so are the results.
CallDynamic(fn, ctx, throws, failed(_)) ==
    LET wants == PayloadFinder(fn.args)
    IN IF wants # "none" /\ ctx \notin {"none", wants}
       THEN [status |-> "undefined", results |-> <<>>, payload |-> "none"]
       ELSE IF throws THEN failed("INTERNAL")
       ELSE Answer(FillReturnTypes(fn.ret), PayloadFinder(fn.ret))

DynamicFuncWrapper(fn, ctx, throws) ==
    CallDynamic(fn, ctx, throws, ErrorAnswer)

DynamicAsyncFuncWrapper(fn, ctx, throws) ==
    CallDynamic(fn, ctx, throws,
                LAMBDA status : ErrorChannel("INVALID_ARGUMENT"))

InvokeFunction(id, params, ctx, throws) ==
    IF ~IsRegistered(id) THEN ErrorAnswer("INVALID_ARGUMENT")
    ELSE IF fns[id].dyn THEN DynamicFuncWrapper(fns[id], ctx, throws)
    ELSE MakeRpcWrapper(fns[id], params, ctx, throws)

InvokeAsyncFunction(id, params, ctx, throws) ==
    IF ~IsRegistered(id) THEN ErrorChannel("NOT_FOUND")
    ELSE IF fns[id].dyn THEN DynamicAsyncFuncWrapper(fns[id], ctx, throws)
    ELSE MakeAsyncRpcWrapper(fns[id], params, ctx, throws)

\* A request in a buffer may not deserialize.
DispatchImpl(garbage, id, params, ctx, throws) ==
    IF garbage THEN ErrorAnswer("INVALID_ARGUMENT")
    ELSE InvokeFunction(id, params, ctx, throws)

DispatchAsyncImpl(garbage, id, params, ctx, throws) ==
    IF garbage THEN ErrorChannel("UNAVAILABLE")
    ELSE InvokeAsyncFunction(id, params, ctx, throws)

\* Dispatch and DispatchMove without a result type.
Dispatch(garbage, id, params, ctx, throws) ==
    DispatchImpl(garbage, id, params, ctx, throws)

DispatchAsync(garbage, id, params, ctx, throws) ==
    DispatchAsyncImpl(garbage, id, params, ctx, throws)

AnyDispatch(garbage, id, params, ctx, throws) ==
    IF kind = "sync" THEN Dispatch(garbage, id, params, ctx, throws)
    ELSE DispatchAsync(garbage, id, params, ctx, throws)

\* std::get on the payload: any other type throws.
BuildRpcResult(out, want) ==
    IF out.payload = want THEN out ELSE ErrorChannel("bad_variant_access")

\* The overloads with a result type.  An error of the asynchronous one is in
\* its own channel and never gets to std::get.
DispatchTyped(garbage, id, params, ctx, throws, want) ==
    BuildRpcResult(Dispatch(garbage, id, params, ctx, throws), want)

DispatchAsyncTyped(garbage, id, params, ctx, throws, want) ==
    LET out == DispatchAsync(garbage, id, params, ctx, throws)
    IN IF out.status # "OK" THEN out ELSE BuildRpcResult(out, want)

-----------------------------------------------------------------------------
ArgLists == {fn.args : fn \in Functions}

\* The function is not that of a registration that threw, and no signature
\* was replaced.
Clean(id) ==
    /\ IsRegistered(id) /\ id \notin orphans
    /\ kind = "async" \/ attempts[id] = 1

\* Every request that Validate accepts for a function's signature, with the
\* payload the signature asks for, reaches the function: whatever is
\* registered under the id later, no argument is missing and no payload is
\* taken for another (Validate, extract_arg, the handlers of the worker).
ValidatedRequestFits ==
    \A id \in FnIds, args \in ArgLists :
        LET r == PrepareRequest(args)
        IN (/\ Clean(id)
            /\ Validate(r.params, GetSignature(id))
            /\ r.payload = GetSignature(id).input)
           => /\ AnyDispatch(FALSE, id, r.params, r.payload, FALSE).status = "OK"
              /\ handlers[id] = r.payload

\* What a synchronous function answers has the types its signature announces
\* to the client, and a caller who asks for the announced payload gets it;
\* asked for it, a failed call throws instead of reporting its error.  The
\* asynchronous dispatcher reports it (MakeRpcSignature, PrepareResponse,
\* BuildRpcResult).
AnswerFitsSignature ==
    \A id \in FnIds, throws \in BOOLEAN :
        Clean(id) =>
          LET sig == GetSignature(id)
              out == DispatchTyped(FALSE, id, sig.params, sig.input, throws,
                                   sig.output)
              async == DispatchAsyncTyped(FALSE, id, sig.params, sig.input,
                                          throws, PayloadFinder(fns[id].ret))
          IN CASE kind = "sync" /\ ~throws ->
                    out = Answer(sig.returns, sig.output)
               [] kind = "sync" /\ throws ->
                    out.status = IF sig.output = "none" THEN "INTERNAL"
                                 ELSE "bad_variant_access"
               [] OTHER ->
                    async.status = IF throws THEN "INVALID_ARGUMENT" ELSE "OK"

=============================================================================
