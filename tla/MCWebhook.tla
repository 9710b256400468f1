----------------------------- MODULE MCWebhook ------------------------------
EXTENDS Webhook, TLC

CONSTANTS t1, t2

MCConfigs ==
    <<t1 :> [enabled |-> TRUE, events |-> {}]
        @@ t2 :> [enabled |-> TRUE, events |-> {"lane_unavailable", "lane_recovered"}],
      t1 :> [enabled |-> TRUE, events |-> {"lane_unavailable"}]
        @@ t2 :> [enabled |-> FALSE, events |-> {}]>>
MCRetryDelays == <<1>>
=============================================================================
