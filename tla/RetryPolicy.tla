---------------------------- MODULE RetryPolicy ----------------------------
(***************************************************************************)
(* retry.py: bounded exponential backoff and the topics it is spelled as.  *)
(* A policy is a record with the four fields of the dataclass; times are   *)
(* whole milliseconds.  A topic name is a sequence of words, so that the   *)
(* f-strings of the source are concatenations: "orders.retry.3s" is        *)
(* <<"orders", "retry", 3000>>.  (Between whole milliseconds below 1000 s  *)
(* format_delay is one to one, so the number stands for its rendering.)    *)
(***************************************************************************)
EXTENDS Integers, Sequences

\* What RetryPolicy.__post_init__ accepts.
ValidPolicy(policy) ==
    /\ policy.max_attempts \in Nat \ {0}
    /\ policy.base_delay \in Nat \ {0}
    /\ policy.multiplier \in Nat \ {0}
    /\ policy.max_delay \in Nat
    /\ policy.max_delay >= policy.base_delay

\* RetryPolicy.delays: the wait before each retry, in order.
DelaysOf(policy) ==
    [n \in 1 .. policy.max_attempts - 1 |->
        LET grown == policy.base_delay * policy.multiplier ^ (n - 1)
        IN  IF grown < policy.max_delay THEN grown ELSE policy.max_delay]

RetryTopic(source, delay) == source \o <<"retry", delay>>

DlqTopic(source) == source \o <<"dlq">>

\* RetryPolicy.retry_topics, as a set: tiers with one delay share one topic.
RetryTopics(source, delays) ==
    {RetryTopic(source, delays[n]) : n \in DOMAIN delays}

\* RetryPolicy.topics_for.
TopicsFor(source, delays) ==
    {source} \cup RetryTopics(source, delays) \cup {DlqTopic(source)}
=============================================================================
