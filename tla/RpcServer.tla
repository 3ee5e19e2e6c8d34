----------------------------- MODULE RpcServer ------------------------------
(***************************************************************************)
(* The server side of contrib/libevent/evrpc.c: procedures are registered  *)
(* with an HTTP server, hooks filter what comes in and goes out, and a     *)
(* request is replied to now or at any later time by the program.          *)
(***************************************************************************)
EXTENDS Integers, Sequences, SequencesExt, FiniteSets

CONSTANTS Names,      \* names of procedures
          Requests,   \* requests of clients
          MaxRpcs,    \* procedures that are registered in a run
          Hooks,      \* hooks: handles of both lists
          Ongoing,    \* procedures are unregistered while requests are under way
          FreesBase   \* the program calls evrpc_free() with procedures registered

\* What the constants have to be.
Sane == /\ MaxRpcs \in Nat
        /\ {Ongoing, FreesBase} \subseteq BOOLEAN

VARIABLES base,      \* the base is not freed
          rpcs,      \* base->registered_rpcs
          callbacks, \* http_server->callbacks that evrpc_request_cb() is the function of
          made,      \* procedures registered so far: the next one's number
          input,     \* base->input_hooks, with what each hook returns
          output,    \* base->output_hooks
          state,     \* of a request: "new", "user" (the program has it), "done"
          used,      \* the number of the procedure that a request is for
          replies,   \* history: codes sent for a request
          freed,     \* numbers of procedures that were freed
          wrong,     \* a freed procedure or its name was used
          aborted    \* an assertion failed

vars == <<base, rpcs, callbacks, made, input, output, state, used, replies, freed, wrong, aborted>>

-----------------------------------------------------------------------------
\* evrpc_init().
Init == /\ base = TRUE /\ rpcs = <<>> /\ callbacks = <<>> /\ made = 0 /\ input = <<>> /\ output = <<>>
        /\ state = [r \in Requests |-> "new"] /\ used = [r \in Requests |-> 0]
        /\ replies = [r \in Requests |-> <<>>]
        /\ freed = {} /\ wrong = FALSE /\ aborted = FALSE

\* evrpc_register_rpc(), at the end of both lists.
Register(n) == /\ base /\ made < MaxRpcs
               /\ made' = made + 1
               /\ rpcs' = Append(rpcs, [name |-> n, id |-> made + 1])
               /\ callbacks' = Append(callbacks, [name |-> n, id |-> made + 1])
               /\ UNCHANGED <<base, input, output, state, used, replies, freed, wrong, aborted>>

\* The first of a list with a name, its number or 0.
First(s, n) == LET I == {i \in 1..Len(s) : s[i].name = n}
               IN  IF I = {} THEN 0 ELSE CHOOSE i \in I : \A j \in I : i <= j

\* evhttp_del_cb(): the first callback for the URI.
DelCb(n) == RemoveAt(callbacks, First(callbacks, n))

\* The requests that the program has for the first procedure called n.
Held(n) == {r \in Requests : state[r] = "user" /\ used[r] = rpcs[First(rpcs, n)].id}

\* evrpc_unregister_rpc(), and its assertion that the server knew the procedure.
Unregister(n) ==
  /\ First(rpcs, n) # 0
  /\ Held(n) # {} => Ongoing
  /\ rpcs' = RemoveAt(rpcs, First(rpcs, n))
  /\ freed' = freed \cup {rpcs[First(rpcs, n)].id}
  /\ IF First(callbacks, n) = 0 THEN aborted' = TRUE /\ UNCHANGED callbacks
                                ELSE callbacks' = DelCb(n) /\ UNCHANGED aborted
  /\ UNCHANGED <<base, made, input, output, state, used, replies, wrong>>

\* evrpc_add_hook(): at the end of its list.
AddHook(h, res) == /\ base
                   /\ h \notin {x.h : x \in ToSet(input) \cup ToSet(output)}
                   /\ \/ input' = Append(input, [h |-> h, res |-> res]) /\ UNCHANGED output
                      \/ output' = Append(output, [h |-> h, res |-> res]) /\ UNCHANGED input
                   /\ UNCHANGED <<base, rpcs, callbacks, made, state, used, replies, freed, wrong, aborted>>

\* evrpc_remove_hook(): by its handle.
RemoveHook(h) == /\ h \in {x.h : x \in ToSet(input) \cup ToSet(output)}
                 /\ input' = SelectSeq(input, LAMBDA x : x.h # h)
                 /\ output' = SelectSeq(output, LAMBDA x : x.h # h)
                 /\ UNCHANGED <<base, rpcs, callbacks, made, state, used, replies, freed, wrong, aborted>>

\* Hooks after the first are not asked.
BugProcessHooks(hooks) == IF hooks # <<>> /\ hooks[1].res = -1 THEN -1 ELSE 0

\* evrpc_process_hooks().
ProcessHooks(hooks) == IF \E x \in ToSet(hooks) : x.res = -1 THEN -1 ELSE 0

Reply(r, code) == /\ replies' = [replies EXCEPT ![r] = Append(@, code)]
                  /\ state' = [state EXCEPT ![r] = "done"]

\* evrpc_request_cb(): the request is no POST, is empty, or cannot be unmarshalled;
\* a hook refuses it; or the program gets it.
RequestCb(r, ok) ==
  IF ok /\ ProcessHooks(input) # -1
  THEN state' = [state EXCEPT ![r] = "user"] /\ UNCHANGED replies
  ELSE Reply(r, 503)

\* A request arrives, and the HTTP server calls the first callback for its URI.
Request(r, n, ok) ==
  /\ state[r] = "new"
  /\ IF First(callbacks, n) = 0
     THEN Reply(r, 404) /\ UNCHANGED <<used, wrong>>
     ELSE LET id == callbacks[First(callbacks, n)].id
          IN  /\ used' = [used EXCEPT ![r] = id]
              /\ wrong' = (wrong \/ id \in freed)
              /\ RequestCb(r, ok)
  /\ UNCHANGED <<base, rpcs, callbacks, made, input, output, freed, aborted>>

\* evrpc_request_done(), now or later; the reply may be incomplete.
RequestDone(r, complete) ==
  /\ state[r] = "user"
  /\ wrong' = (wrong \/ used[r] \in freed)
  /\ Reply(r, IF complete /\ ProcessHooks(output) # -1 THEN 200 ELSE 503)
  /\ UNCHANGED <<base, rpcs, callbacks, made, input, output, used, freed, aborted>>

\* evrpc_free(): a procedure that is left is unregistered inside of
\* assert(evrpc_unregister_rpc(base, rpc->uri)), a function that returns 0 when it is
\* done and reads the name again after it has freed it.
BaseFree ==
  /\ base /\ \A r \in Requests : state[r] # "user"
  /\ rpcs # <<>> => FreesBase
  /\ IF rpcs = <<>>
     THEN /\ base' = FALSE /\ input' = <<>> /\ output' = <<>>
          /\ UNCHANGED <<rpcs, callbacks, freed, wrong, aborted>>
     ELSE /\ rpcs' = Tail(rpcs)
          /\ callbacks' = DelCb(rpcs[1].name)
          /\ freed' = freed \cup {rpcs[1].id}
          /\ wrong' = TRUE
          /\ aborted' = TRUE
          /\ UNCHANGED <<base, input, output>>
  /\ UNCHANGED <<made, state, used, replies>>

-----------------------------------------------------------------------------
Next == /\ ~aborted
        /\ \/ \E n \in Names : Register(n) \/ Unregister(n)
           \/ \E h \in Hooks : RemoveHook(h) \/ \E res \in {-1, 0} : AddHook(h, res)
           \/ \E r \in Requests, b \in BOOLEAN : \/ RequestDone(r, b)
                                                \/ \E n \in Names : Request(r, n, b)
           \/ BaseFree

Spec == Init /\ [][Next]_vars

-----------------------------------------------------------------------------
\* The procedures of the base are the callbacks of the server, in the same order: a
\* request never meets a procedure that was freed, also when two have one name.
SameProcedures == rpcs = callbacks /\ (\A k \in 1..Len(rpcs) : rpcs[k].id \notin freed)

\* A request is replied to once: not before the program has done with it, and by an
\* error or by the program, not by both.
OneReply == \A r \in Requests : Len(replies[r]) = IF state[r] = "done" THEN 1 ELSE 0

\* What a hook has refused does not reach the program, and a reply that a hook has
\* refused is not sent.
HooksObeyed ==
  [][\A r \in Requests :
       /\ state[r] = "new" /\ state'[r] = "user" => \A x \in ToSet(input) : x.res # -1
       /\ replies'[r] # replies[r] /\ Last(replies'[r]) = 200 => \A x \in ToSet(output) : x.res # -1]_vars

\* Neither a procedure nor its name is used after it was freed.
NoFreedRpc == ~wrong

\* No assertion fails.
NoAbort == ~aborted
=============================================================================
