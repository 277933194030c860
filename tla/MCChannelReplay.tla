--------------------------- MODULE MCChannelReplay --------------------------
(***************************************************************************)
(* Instances of ChannelReplay for TLC.                                     *)
(***************************************************************************)
EXTENDS ChannelReplay

CONSTANTS builder, other, q, named, logs, topic

MCForeign     == {topic}
MCServerNamed == {named}
MCFragile     == {q, named, logs}

Flows == {<<"Flow", "off">>, <<"Flow", "on">>}

Declarations ==
    {<<"QueueDeclare", q>>, <<"QueueDeclare", named>>, <<"ExchangeDeclare", logs>>,
     <<"QueueBind", q, logs>>, <<"QueueBind", q, topic>>, <<"QueueBind", named, topic>>,
     <<"ExchangeBind", logs, topic>>, <<"ExchangeBind", topic, logs>>}

Removals ==
    {<<"QueueDelete", q>>, <<"ExchangeDelete", logs>>,
     <<"QueueUnbind", q, logs>>, <<"ExchangeUnbind", logs, topic>>}

\* One goroutine builds the topology; another changes settings and removes.
MCCallers == {builder, other}
MCOperations ==
    [c \in MCCallers |->
        IF c = builder THEN Declarations \cup Flows
        ELSE Removals \cup Flows \cup {<<"Qos", "few">>, <<"Qos", "many">>, <<"Confirm">>}]

\* One goroutine binds and unbinds.
MCRebinding ==
    [c \in MCCallers |->
        IF c = builder THEN Declarations \cup {<<"ExchangeUnbind", logs, topic>>} ELSE {}]
=============================================================================
