-------------------------------- MODULE Policy --------------------------------
(* What a backend's configuration does to a call: the arguments it pins or   *)
(* denies (registry/src/lib.rs), the backend a tool's name leads to, in the  *)
(* hub and in a one-shot call (server/src/one_shot.rs), and how long the     *)
(* health loop waits before it tries a lost backend again.                   *)
EXTENDS Naturals, Sequences, SequencesExt

CONSTANTS
    Arg,            \* argument names
    Namespace,      \* sequences of the parts of a name between its dots; <<>> is none
    Tool,           \* names of tools, as backends know them: sequences too
    MaxAttempts     \* bound of the model

\* A tool's name has at least one part.
ASSUME PolicyAssumption ==
    /\ \A s \in Namespace \union Tool : s \in Seq(STRING)
    /\ <<>> \notin Tool
    /\ MaxAttempts \in Nat

VARIABLES
    call,       \* a tools/call: the backend's policy, the tool's schema, the arguments
    config,     \* two backends, in the order of the configuration
    attempts    \* the health loop's attempts to reconnect a backend

policyVars == <<call, config, attempts>>

-----------------------------------------------------------------------------
(* Arguments.                                                              *)

HiddenArgs(def) == def.pin_args \union def.deny_args

StripSchemaArgs(schema, hidden) ==
    [properties |-> schema.properties \ hidden, required |-> schema.required \ hidden]

\* Arguments are "none", an "object" with what the client gives for some names,
\* or some "other" JSON value.
Object(map) == [kind |-> "object", map |-> map]
NoMap == [k \in {} |-> "client"]
Arguments ==
    {[kind |-> "none", map |-> NoMap], [kind |-> "other", map |-> NoMap]}
    \union {Object([k \in S |-> "client"]) : S \in SUBSET Arg}
Refused == [kind |-> "refused", map |-> NoMap]

\* A pinned argument as a default, which the client may override.
ApplyArgDefaults(def, args) ==
    IF def.pin_args \union def.deny_args = {} THEN args
    ELSE IF args.kind = "other" \/ def.deny_args \cap DOMAIN args.map # {} THEN Refused
    ELSE Object([k \in def.pin_args \union DOMAIN args.map |->
                     IF k \in DOMAIN args.map THEN "client" ELSE "pinned"])

ApplyArgPolicy(def, args) ==
    IF def.pin_args \union def.deny_args = {} THEN args
    ELSE IF args.kind = "other" \/ def.deny_args \cap DOMAIN args.map # {} THEN Refused
    ELSE Object([k \in def.pin_args \union DOMAIN args.map |->
                     IF k \in def.pin_args THEN "pinned" ELSE args.map[k]])

-----------------------------------------------------------------------------
(* Names.                                                                  *)

ComputeExposedName(namespace, tool) == namespace \o tool

\* An empty tools_allow allows every tool.
Indexed(def) ==
    {t \in def.tools : (def.tools_allow = {} \/ t \in def.tools_allow) /\ t \notin def.tools_deny}
Exposed(def, tools) == {ComputeExposedName(def.namespace, t) : t \in tools}

\* What is left of a name after `prefix.`
Stripped(prefix, name) == SubSeq(name, Len(prefix) + 1, Len(name))
HasPrefix(prefix, name) == IsStrictPrefix(prefix, name)

\* A one-shot call compares the name's first part with the whole namespace.
Considered(def, name) ==
    \/ def.namespace = <<>>
    \/ HasPrefix(def.namespace, name) /\ def.namespace = <<name[1]>>

OwnsUnchecked(def, name) == Considered(def, name)
Owns(def, name) == Considered(def, name) /\ Stripped(def.namespace, name) \in def.tools

\* The backends are asked one by one; the first that lists the tool is called.
OneShot(order, name) ==
    LET owning == {n \in DOMAIN order : Owns(config[order[n]], name)}
        owner == order[Min(owning)]
    IN IF owning = {} THEN <<>> ELSE <<owner, Stripped(config[owner].namespace, name)>>

-----------------------------------------------------------------------------
(* min(1000 * 2^(attempt - 1), 60000), as a release build computes it: modulo *)
(* 2^64.  1000 is 125 * 2^3 and 125 is odd, so the product is 0 or beyond the *)
(* cap once the power of two is.                                              *)

Wrapped(width, attempt) ==
    LET e == attempt + 2
    IN IF e >= width THEN 0 ELSE IF e >= 9 THEN 60000 ELSE Min({125 * 2^e, 60000})

DelayIn32Bits(attempt) == Wrapped(32, attempt)
Delay(attempt) == Wrapped(64, attempt)

-----------------------------------------------------------------------------

NoCall == [def |-> [pin_args |-> {}, deny_args |-> {}],
           schema |-> [properties |-> {}, required |-> {}], args |-> Object(NoMap)]

PolicyInit ==
    /\ call = NoCall
    /\ config = <<>>
    /\ attempts = 0

Schema == UNION {[properties : {P}, required : SUBSET P] : P \in SUBSET Arg}
Def == [namespace : Namespace, tools : SUBSET Tool, tools_allow : SUBSET Tool, tools_deny : SUBSET Tool]

Call(def, schema, args) ==
    /\ call' = [def |-> def, schema |-> schema, args |-> args]
    /\ UNCHANGED <<config, attempts>>

Configure(defs) ==
    /\ config' = defs
    /\ UNCHANGED <<call, attempts>>

\* reconnect_attempts counts up to the next success.
AttemptFails ==
    /\ attempts < MaxAttempts
    /\ attempts' = attempts + 1
    /\ UNCHANGED <<call, config>>

Reconnected ==
    /\ attempts > 0
    /\ attempts' = 0
    /\ UNCHANGED <<call, config>>

\* The three have nothing to do with each other: one at a time is enough.
PolicyNext ==
    \/ /\ config = <<>> /\ attempts = 0 /\ call = NoCall
       /\ \E pin, deny \in SUBSET Arg, schema \in Schema, args \in Arguments :
            Call([pin_args |-> pin, deny_args |-> deny], schema, args)
    \/ /\ config = <<>> /\ attempts = 0 /\ call = NoCall
       /\ \E a, b \in Def : Configure(<<a, b>>)
    \/ config = <<>> /\ call = NoCall /\ (AttemptFails \/ Reconnected)

PolicySpec == PolicyInit /\ [][PolicyNext]_policyVars

-----------------------------------------------------------------------------
(* Properties.                                                             *)

Forwarded == ApplyArgPolicy(call.def, call.args)

\* README.md:229-230, of calls through the hub: whatever a client sends, the
\* backend gets every pinned argument with the pinned value, and no denied one
\* but those that are pinned as well.
ArgumentPolicyHolds ==
    Forwarded.kind # "refused" =>
        /\ \A k \in call.def.pin_args : k \in DOMAIN Forwarded.map /\ Forwarded.map[k] = "pinned"
        /\ \A k \in call.def.deny_args \cap DOMAIN Forwarded.map : Forwarded.map[k] = "pinned"

\* A client that keeps to the schema tools/list shows it is never refused, its
\* arguments arrive, and the backend gets every argument the tool requires
\* unless the configuration denies that one without pinning it.
ListedIsCallable ==
    LET listed == StripSchemaArgs(call.schema, HiddenArgs(call.def)) IN
    /\ listed.required \subseteq listed.properties
    /\ /\ call.args.kind = "object"
       /\ DOMAIN call.args.map \subseteq listed.properties
       /\ listed.required \subseteq DOMAIN call.args.map
       => /\ Forwarded.kind = "object"
          /\ \A k \in DOMAIN call.args.map : Forwarded.map[k] = "client"
          /\ call.schema.required \ (call.def.deny_args \ call.def.pin_args) \subseteq DOMAIN Forwarded.map

\* What the configuration promises the backend holds, and it does not break what
\* tools/list promises the client.
PolicyHolds == ArgumentPolicyHolds /\ ListedIsCallable

\* A one-shot call finds every tool the hub lists, in whatever order the
\* configuration is read, and calls it on the same backend under the same name,
\* if only one backend has a tool of that exposed name and its namespace has no
\* dot in it.
OneShotFindsTheListed ==
    \A name \in UNION {Exposed(config[i], Indexed(config[i])) : i \in DOMAIN config} :
        LET having == {i \in DOMAIN config : name \in Exposed(config[i], config[i].tools)} IN
        \A i \in having, order \in {<<1, 2>>, <<2, 1>>} :
            having = {i} /\ Len(config[i].namespace) <= 1
                => OneShot(order, name) = <<i, Stripped(config[i].namespace, name)>>

\* The health loop never tries again without a delay, and its delays never get
\* shorter while a backend stays away.  From the 62nd attempt on the product has
\* wrapped to 0 (in a debug build it overflows, and panics, from the 56th).
BackoffGrows ==
    attempts \in 1 .. 61 =>
        Delay(attempts) \in 1000 .. 60000 /\ (attempts > 1 => Delay(attempts) >= Delay(attempts - 1))
==============================================================================
