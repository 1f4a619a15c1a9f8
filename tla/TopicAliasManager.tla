------------------------- MODULE TopicAliasManager -------------------------
(***************************************************************************)
(* Topic aliases of one connection: classes TopicAliasMap and              *)
(* TopicAliasManager in src/state/topic-alias.ts.  A Map from alias to     *)
(* topic is a function that is NoTopic where the Map has no entry (an      *)
(* empty topic is never stored); topicToOutboundAlias is 0 where it has    *)
(* none.  The methods are operators that MqttWire composes; each method is *)
(* synchronous, hence part of one step.                                    *)
(***************************************************************************)
EXTENDS Integers

CONSTANTS Topics,     \* non-empty topic names
          MaxAlias    \* the width of a topic alias (65535 in the code)

VARIABLES outboundMaximum,        \* the client's Topic Alias Maximum
          inboundMaximum,         \* the server's own
          outboundAliases,        \* server -> client mapping
          inboundAliases,         \* client -> server mapping
          topicToOutboundAlias,   \* reverse of outboundAliases
          nextOutboundAlias

aliasVars == <<outboundMaximum, inboundMaximum, outboundAliases, inboundAliases,
               topicToOutboundAlias, nextOutboundAlias>>

NoTopic == ""
NoAlias == -1              \* the property is absent; 0 is a value a client can send
Aliases == 1..MaxAlias

NoMapping == [alias \in Aliases |-> NoTopic]

\* A manager with these maxima and nothing assigned; also new TopicAliasManager().
Construct(outboundMax, inboundMax) ==
    /\ outboundMaximum' = outboundMax
    /\ inboundMaximum' = inboundMax
    /\ outboundAliases' = NoMapping
    /\ inboundAliases' = NoMapping
    /\ topicToOutboundAlias' = [topic \in Topics |-> 0]
    /\ nextOutboundAlias' = 1

AliasInit ==
    /\ outboundMaximum = 0 /\ inboundMaximum = 0
    /\ outboundAliases = NoMapping /\ inboundAliases = NoMapping
    /\ topicToOutboundAlias = [topic \in Topics |-> 0]
    /\ nextOutboundAlias = 1

-----------------------------------------------------------------------------
(* Inbound: resolveInbound(topic, alias). *)

\* TopicAliasMap.isValid() and the range test of set().
InRange(alias, maximum) == 1 <= alias /\ alias <= maximum

\* FALSE is a TopicAliasError, which leaves the manager as it was.
Resolvable(topic, alias) ==
    \/ alias = NoAlias /\ topic # NoTopic
    \/ alias # NoAlias /\ topic # NoTopic /\ InRange(alias, inboundMaximum)
    \/ alias \in Aliases /\ topic = NoTopic /\ inboundAliases[alias] # NoTopic

Resolved(topic, alias) == IF topic # NoTopic THEN topic ELSE inboundAliases[alias]

\* The effect of a call that does not throw.
ResolveInbound(topic, alias) ==
    /\ inboundAliases' = IF alias # NoAlias /\ topic # NoTopic
                         THEN [inboundAliases EXCEPT ![alias] = topic]
                         ELSE inboundAliases
    /\ UNCHANGED <<outboundMaximum, inboundMaximum, outboundAliases,
                   topicToOutboundAlias, nextOutboundAlias>>

-----------------------------------------------------------------------------
(* Outbound: getOrAssignOutbound(topic). *)

HasAlias(topic) == topicToOutboundAlias[topic] # 0

CanAssign(topic) == /\ outboundMaximum > 0
                    /\ ~HasAlias(topic)
                    /\ nextOutboundAlias <= outboundMaximum

\* What the call returns: the alias to use (NoAlias for undefined), and whether the
\* topic has to go with it.
OutboundAlias(topic) == IF HasAlias(topic) THEN topicToOutboundAlias[topic]
                        ELSE IF CanAssign(topic) THEN nextOutboundAlias ELSE NoAlias
SendTopic(topic) == ~HasAlias(topic)

GetOrAssignOutbound(topic) ==
    /\ IF CanAssign(topic)
       THEN /\ outboundAliases' = [outboundAliases EXCEPT ![nextOutboundAlias] = topic]
            /\ topicToOutboundAlias' =
                   [topicToOutboundAlias EXCEPT ![topic] = nextOutboundAlias]
            /\ nextOutboundAlias' = nextOutboundAlias + 1
       ELSE UNCHANGED <<outboundAliases, topicToOutboundAlias, nextOutboundAlias>>
    /\ UNCHANGED <<outboundMaximum, inboundMaximum, inboundAliases>>

ClearKeepsReverse ==   \* mutated: topicToOutboundAlias is forgotten by clear()
    /\ outboundAliases' = NoMapping
    /\ inboundAliases' = NoMapping
    /\ nextOutboundAlias' = 1
    /\ UNCHANGED <<outboundMaximum, inboundMaximum, topicToOutboundAlias>>

\* clear(): forgets the mappings of both directions and keeps the maxima.
ClearAliases ==
    /\ outboundAliases' = NoMapping
    /\ inboundAliases' = NoMapping
    /\ topicToOutboundAlias' = [topic \in Topics |-> 0]
    /\ nextOutboundAlias' = 1
    /\ UNCHANGED <<outboundMaximum, inboundMaximum>>
=============================================================================
