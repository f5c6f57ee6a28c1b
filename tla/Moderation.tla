----------------------------- MODULE Moderation -----------------------------
(****************************************************************************)
(* The admin endpoints (handlers/admin.go over AdminRepository): ban and    *)
(* unban users, words and content hashes, edit the whitelist, delete nodes. *)
(* Every call is one statement except AddBannedHash, which inserts the ban  *)
(* and then, in a second statement, purges the content already stored.      *)
(* A failed single statement changes nothing and is not a step.             *)
(****************************************************************************)
EXTENDS Database

CONSTANT Powers  \* bound of the model: the kinds of admin call that are made

ASSUME PowersAssumption == Powers \subseteq {"user", "word", "hash", "whitelist", "delete"}

VARIABLES
    purging,  \* hashes whose ban is recorded and whose purge is still to run
    removed   \* history: IDs of the nodes that moderation deleted

moderationVars == <<purging, removed>>

ModerationTypeOK == purging \subseteq Hash /\ removed \subseteq ID
ModerationInit == purging = {} /\ removed = {}

BanUser(k) ==
    /\ banned_users' = banned_users \cup {k}
    /\ UNCHANGED <<nodes, used_nonces, banned_words, banned_hashes, whitelist, moderationVars, clock, faults>>

UnbanUser(k) ==
    /\ banned_users' = banned_users \ {k}
    /\ UNCHANGED <<nodes, used_nonces, banned_words, banned_hashes, whitelist, moderationVars, clock, faults>>

BanWord(w) ==
    /\ banned_words' = banned_words \cup {w}
    /\ UNCHANGED <<nodes, used_nonces, banned_users, banned_hashes, whitelist, moderationVars, clock, faults>>

UnbanWord(w) ==
    /\ banned_words' = banned_words \ {w}
    /\ UNCHANGED <<nodes, used_nonces, banned_users, banned_hashes, whitelist, moderationVars, clock, faults>>

AddToWhitelist(k) ==
    /\ whitelist' = whitelist \cup {k}
    /\ UNCHANGED <<nodes, used_nonces, banned_users, banned_words, banned_hashes, moderationVars, clock, faults>>

RemoveFromWhitelist(k) ==
    /\ whitelist' = whitelist \ {k}
    /\ UNCHANGED <<nodes, used_nonces, banned_users, banned_words, banned_hashes, moderationVars, clock, faults>>

\* DELETE FROM nodes: all of the rows, unless a row that stays replies to one of them.
DeleteRows(rows) ==
    /\ Deletable(rows)
    /\ nodes' = nodes \ rows
    /\ removed' = removed \cup {n.id : n \in rows}

\* AdminHandler.HandleDeleteNode; a node with replies is refused with a 500.
DeleteNode(id) ==
    /\ id \in IDs
    /\ DeleteRows({n \in nodes : n.id = id})
    /\ UNCHANGED <<used_nonces, banned_users, banned_words, banned_hashes, whitelist, purging, clock, faults>>

\* First statement of AddBannedHash. If the call fails after the INSERT was committed,
\* the handler returns and the purge never runs.
RecordBan(h) ==
    /\ banned_hashes' = banned_hashes \cup {h}
    /\ \/ purging' = purging \cup {h} /\ UNCHANGED faults
       \/ Fault /\ UNCHANGED purging
    /\ UNCHANGED <<nodes, used_nonces, banned_users, banned_words, whitelist, removed, clock>>

\* Second statement: its error, a reply that keeps the row or a failed call, is dropped.
Purge(h) ==
    /\ h \in purging
    /\ purging' = purging \ {h}
    /\ \/ DeleteRows(StoredWith(h)) /\ UNCHANGED faults
       \/ ~Deletable(StoredWith(h)) /\ UNCHANGED <<nodes, removed, faults>>
       \/ Fault /\ UNCHANGED <<nodes, removed>>
    /\ UNCHANGED <<used_nonces, banned_users, banned_words, banned_hashes, whitelist, clock>>

RemoveBannedHash(h) ==
    /\ banned_hashes' = banned_hashes \ {h}
    /\ UNCHANGED <<nodes, used_nonces, banned_users, banned_words, whitelist, moderationVars, clock, faults>>

ModerationStep ==
    \/ "user" \in Powers /\ \E k \in Key : BanUser(k) \/ UnbanUser(k)
    \/ "word" \in Powers /\ \E w \in Word : BanWord(w) \/ UnbanWord(w)
    \/ "whitelist" \in Powers /\ \E k \in Key : AddToWhitelist(k) \/ RemoveFromWhitelist(k)
    \/ "delete" \in Powers /\ \E id \in IDs : DeleteNode(id)
    \/ "hash" \in Powers /\ \E h \in Hash : RecordBan(h) \/ Purge(h) \/ RemoveBannedHash(h)
=============================================================================
