------------------------------ MODULE Envelope ------------------------------
(***************************************************************************)
(* envelope.py: what travels in a record's headers.  A record keeps the    *)
(* headers some rule reads:                                                *)
(*   event       x-event-id, or NoId                                       *)
(*   key         the record key, or NoKey                                  *)
(*   origin      x-original-topic, -partition and -offset, or NoOrigin     *)
(*   attempt     x-attempt (0 when absent)                                 *)
(*   not_before  x-not-before (0 when absent)                              *)
(* Event ids share one name space in the source (a header, a key and the   *)
(* text "topic:offset" are all strings), so all are sequences here.        *)
(***************************************************************************)
EXTENDS Integers, Sequences

NoId     == <<>>
NoKey    == ""
NoOrigin == <<>>

\* A record as a producer writes it on a source topic.
NewRecord(event, key) ==
    [event |-> event, key |-> key, origin |-> NoOrigin,
     attempt |-> 0, not_before |-> 0]

\* source_topic: the topic the record was first produced to.
SourceTopic(topic, record) ==
    IF record.origin = NoOrigin THEN topic ELSE record.origin[1]

\* event_id_of: the header, else the key, else topic and offset.  The
\* partition is no part of the last form.
EventIdOf(topic, offset, record) ==
    IF record.event # NoId THEN record.event
    ELSE IF record.key # NoKey THEN <<record.key>>
    ELSE <<topic, offset>>

\* The record on the source topic that this one descends from
\* (FailureInfo.original_partition and original_offset).
Lineage(topic, partition, offset, record) ==
    IF record.origin = NoOrigin THEN <<topic, partition, offset>>
    ELSE record.origin

\* Faulty variants of FailureHeaders: the attempt of the first copy is kept; an
\* identity that is no header is not made one.
FailureHeadersKeepAttempt(topic, partition, offset, record, attempt, notBefore) ==
    [record EXCEPT
        !.event      = EventIdOf(topic, offset, record),
        !.origin     = Lineage(topic, partition, offset, record),
        !.not_before = notBefore]

FailureHeadersKeepId(topic, partition, offset, record, attempt, notBefore) ==
    [record EXCEPT
        !.origin     = Lineage(topic, partition, offset, record),
        !.attempt    = attempt,
        !.not_before = notBefore]

\* failure_headers: identity and provenance are written once and kept; the
\* attempt and the due time are those of this failure.  notBefore 0 stands for
\* None, which removes the header.
FailureHeaders(topic, partition, offset, record, attempt, notBefore) ==
    [record EXCEPT
        !.event      = EventIdOf(topic, offset, record),
        !.origin     = Lineage(topic, partition, offset, record),
        !.attempt    = attempt,
        !.not_before = notBefore]

\* Faulty variant of ReplayHeaders: the attempt counter is not reset.
ReplayHeadersKeepAttempt(record) == [record EXCEPT !.not_before = 0]

\* replay_headers: a fresh delivery, of the same event from the same origin.
\* No rule reads x-replayed-from and x-replay-count.
ReplayHeaders(record) == [record EXCEPT !.attempt = 0, !.not_before = 0]
=============================================================================
