---------------------------- MODULE MCRateLimit ----------------------------
(* Small instances of RateLimit: every form has cache keys of its own. *)
EXTENDS RateLimitProperties, TLC

MCKey == {"login_ip", "pair", "user", "resend_ip", "sender", "other", "chat_ip"}
MCAsk ==
  {[kind |-> "login", keys |-> <<"login_ip", "pair">>],
   [kind |-> "resend", keys |-> <<"user", "resend_ip">>],
   [kind |-> "chat", keys |-> <<"sender", "chat_ip">>],
   [kind |-> "chat", keys |-> <<"other", "chat_ip">>]}
MCLimit == [k \in MCKey |-> CASE k = "login_ip" -> 3
                              [] k \in {"sender", "other"} -> 1
                              [] OTHER -> 2]
MCWindow == [k \in MCKey |-> CASE k \in {"login_ip", "sender", "other", "chat_ip"} -> 3
                               [] k = "pair" -> 2
                               [] OTHER -> 5]
MCSite ==
  {[kind |-> "login", serial |-> FALSE, maxTime |-> 2, maxAttempts |-> 3],
   [kind |-> "login", serial |-> TRUE, maxTime |-> 4, maxAttempts |-> 4],
   [kind |-> "resend", serial |-> TRUE, maxTime |-> 5, maxAttempts |-> 3],
   [kind |-> "chat", serial |-> FALSE, maxTime |-> 2, maxAttempts |-> 2]}

MCSymmetry == Permutations(Worker)
=============================================================================
