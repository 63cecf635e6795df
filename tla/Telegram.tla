------------------------------ MODULE Telegram ------------------------------
(***************************************************************************)
(* What the server does with Telegram apart from the bot: configurations   *)
(* and setups (module TelegramConfig), messages about calls, leads and     *)
(* deals (module Notifications) and the daily digest (module Digest). They *)
(* meet in the row of the company, which the first writes, the second      *)
(* reads and the third reads and writes.                                   *)
(***************************************************************************)
EXTENDS Notifications, Digest

vars == <<configVars, notifyVars, digestVars>>

Init == ConfigInit /\ NotifyInit /\ DigestInit

Next ==
    \/ ConfigNext /\ UNCHANGED <<notifyVars, digestVars>>
    \/ NotifyNext /\ UNCHANGED digestVars
    \/ DigestNext /\ UNCHANGED notifyVars

Spec == Init /\ [][Next]_vars

-----------------------------------------------------------------------------

TypeOK ==
    /\ \A c \in Companies : config[c] = None \/
        /\ config[c].id \in 1 .. inserted
        /\ config[c].group \in Groups \cup {Manual, None}
        /\ config[c].status \in {"not_started", "creating", "ready", "failed", "manual"}
        /\ config[c].on \subseteq Events
    /\ fate \in [Groups -> {"none", "there", "gone"}]
    /\ \A k \in Keys : slot[k] = None \/ slot[k].post \in DOMAIN posts
    /\ \A n \in Notices : telegramId[n] = None \/ telegramId[n] \in DOMAIN posts
    /\ pinned \subseteq digests

=============================================================================
