--------------------------- MODULE MCWebhookOutbox ---------------------------
(* Instances of WebhookOutbox for TLC: deliveries named for their topics,  *)
(* two at a time, or two copies of one.                                    *)
EXTENDS WebhookOutbox

CONSTANTS o1, a1, x1, s1, p1, p2

MCTopicOf == [d \in Deliveries |-> CASE d = o1 -> "order"
                                     [] d = a1 -> "access"
                                     [] d = x1 -> "redact"
                                     [] d = s1 -> "shop_redact"]

MCTraffic == {{x1, a1} \X {1}, {x1, s1} \X {1}, {a1, s1} \X {1}, {o1, a1} \X {1},
              {a1} \X {1, 2}}
=============================================================================
