------------------------------- MODULE MCEventBus ------------------------------
\* The bus of a streamed run and that of the command line.
EXTENDS EventBus

CONSTANTS t1, t2

MCSetups ==
    {SubscribeAll(<<"log", "stream">>), SubscribeAll(<<"log", "metrics", "webhook">>)}

================================================================================
