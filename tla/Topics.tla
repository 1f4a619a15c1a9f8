------------------------------- MODULE Topics -------------------------------
(***************************************************************************)
(* Topic names and filters: src/topic.ts.  A topic is a string, hence a    *)
(* sequence of UTF-16 code units; its levels are the strings between the   *)
(* slashes.                                                                *)
(***************************************************************************)
EXTENDS Utf8

Slash == 47
WildcardSingle == <<43>>
WildcardMulti  == <<35>>
Dollar == <<36>>
SharedSubscriptionPrefix == <<36, 115, 104, 97, 114, 101, 47>>   \* $share/

Includes(string, character) == character[1] \in ToSet(string)

\* parseTopicLevels() and joinTopicLevels(): split and join at the slashes.  levels[i] are
\* the levels of the first i characters.
ParseTopicLevels(topic) ==
    LET Longer(levels, c) ==
            IF c = Slash THEN Append(levels, <<>>)
            ELSE [levels EXCEPT ![Len(levels)] = Append(@, c)]
        levels[i \in 0..Len(topic)] ==
            IF i = 0 THEN << <<>> >> ELSE Longer(levels[i - 1], topic[i])
    IN levels[Len(topic)]

JoinTopicLevels(levels) ==
    FlattenSeq([i \in DOMAIN levels |-> IF i = 1 THEN levels[i] ELSE <<Slash>> \o levels[i]])

HasTopicLength(topic) == Len(topic) # 0 /\ Len(TextEncoderEncode(topic)) <= MaxStringLength

\* isValidTopicName()
IsValidTopicName(topic) ==
    /\ HasTopicLength(topic)
    /\ ~Includes(topic, WildcardSingle) /\ ~Includes(topic, WildcardMulti)

\* validateTopicName(), which names the failure.
ValidateTopicName(topic) ==
    IF ~HasTopicLength(topic) THEN Err("INVALID_TOPIC")
    ELSE IF Includes(topic, WildcardSingle) \/ Includes(topic, WildcardMulti)
         THEN Err("INVALID_TOPIC")
    ELSE Ok(topic)

\* The loop over the levels: # is the last level and alone in it, + is alone in its level.
IsValidTopicFilter(filter) ==
    LET levels == ParseTopicLevels(filter) IN
    /\ HasTopicLength(filter)
    /\ \A i \in DOMAIN levels :
          /\ Includes(levels[i], WildcardMulti) =>
                levels[i] = WildcardMulti /\ i = Len(levels)
          /\ Includes(levels[i], WildcardSingle) => levels[i] = WildcardSingle

ValidateTopicFilterAnywhere(filter) ==   \* mutated: # may stand before the last level
    LET levels == ParseTopicLevels(filter)
        Fails(i) == \E wildcard \in {WildcardMulti, WildcardSingle} :
                       Includes(levels[i], wildcard) /\ levels[i] # wildcard
    IN IF ~HasTopicLength(filter) \/ \E i \in DOMAIN levels : Fails(i)
       THEN Err("INVALID_TOPIC") ELSE Ok(filter)

\* validateTopicFilter(), a second loop with the same tests.
ValidateTopicFilter(filter) ==
    LET levels == ParseTopicLevels(filter)
        Fails(i) == \/ /\ Includes(levels[i], WildcardMulti)
                       /\ levels[i] # WildcardMulti \/ i # Len(levels)
                    \/ Includes(levels[i], WildcardSingle) /\ levels[i] # WildcardSingle
    IN IF ~HasTopicLength(filter) \/ \E i \in DOMAIN levels : Fails(i)
       THEN Err("INVALID_TOPIC") ELSE Ok(filter)

\* The loop of topicMatches() stops at level i: # matches whatever is left, and a level
\* that is missing or different fails.
StopsAt(topicLevels, filterLevels, i) ==
    \/ filterLevels[i] = WildcardMulti
    \/ i > Len(topicLevels)
    \/ filterLevels[i] # WildcardSingle /\ filterLevels[i] # topicLevels[i]

LevelsMatch(topicLevels, filterLevels) ==
    LET Reached(i) == \A j \in 1..(i - 1) : ~StopsAt(topicLevels, filterLevels, j) IN
    \/ \E i \in 1..Len(filterLevels) : filterLevels[i] = WildcardMulti /\ Reached(i)
    \/ Reached(Len(filterLevels) + 1) /\ Len(topicLevels) = Len(filterLevels)

StartsWith(string, prefix) == IsPrefix(prefix, string)

TopicMatchesDollar(topicName, topicFilter) ==   \* mutated: no rule for $
    LevelsMatch(ParseTopicLevels(topicName), ParseTopicLevels(topicFilter))

\* topicMatches(): wildcards do not match a first level that begins with $.
TopicMatches(topicName, topicFilter) ==
    /\ ~ /\ StartsWith(topicName, Dollar)
         /\ StartsWith(topicFilter, WildcardSingle) \/ StartsWith(topicFilter, WildcardMulti)
    /\ LevelsMatch(ParseTopicLevels(topicName), ParseTopicLevels(topicFilter))

\* isSharedSubscription()
IsSharedSubscription(filter) == StartsWith(filter, SharedSubscriptionPrefix)

\* parseSharedSubscription(): $share/{ShareName}/{filter}
ParseSharedSubscription(filter) ==
    LET afterPrefix == SubSeq(filter, Len(SharedSubscriptionPrefix) + 1, Len(filter))
        slash       == SelectInSeq(afterPrefix, LAMBDA c : c = Slash)   \* 0: there is none
        shareGroup  == SubSeq(afterPrefix, 1, slash - 1)
        topicFilter == SubSeq(afterPrefix, slash + 1, Len(afterPrefix))
    IN IF \/ ~IsSharedSubscription(filter)
          \/ slash \in {0, 1}
          \/ Includes(shareGroup, WildcardSingle) \/ Includes(shareGroup, WildcardMulti)
          \/ ~ValidateTopicFilter(topicFilter).ok
       THEN Err("INVALID_TOPIC")
       ELSE Ok([shareGroup |-> shareGroup, topicFilter |-> topicFilter])

-----------------------------------------------------------------------------
(* MQTT 5.0, section 4.7. *)

\* A filter names the first levels of a topic one by one, and all of them unless it ends in #.
FilterMatches(topicLevels, filterLevels) ==
    LET open  == filterLevels[Len(filterLevels)] = WildcardMulti
        named == IF open THEN Len(filterLevels) - 1 ELSE Len(filterLevels)
    IN /\ Len(topicLevels) = named \/ (open /\ Len(topicLevels) > named)
       /\ \A i \in 1..named : filterLevels[i] \in {WildcardSingle, topicLevels[i]}

\* A wildcard has a level of its own, and # the last one.
WellFormedFilter(filter) ==
    /\ HasTopicLength(filter)
    /\ \A i \in DOMAIN filter :
          /\ filter[i] \in {WildcardSingle[1], WildcardMulti[1]} =>
                /\ i = 1 \/ filter[i - 1] = Slash
                /\ i = Len(filter) \/ filter[i + 1] = Slash
          /\ filter[i] = WildcardMulti[1] => i = Len(filter)
=============================================================================
