----------------------------- MODULE Governance -----------------------------
(****************************************************************************)
(* The rules of the middleware chain Banlist -> ContentFilter -> Whitelist  *)
(* (internal/api/middleware), which stands in front of both write           *)
(* endpoints, as predicates on the tables.                                  *)
(****************************************************************************)
EXTENDS Database

CONSTANTS
    NoKey,          \* the X-MeuEu-Author header is missing
    WhitelistMode   \* SERVER_MODE = "WHITELIST"

ASSUME GovernanceAssumption == NoKey \notin Key /\ WhitelistMode \in BOOLEAN

ContainsBannedWords(d) == d.body \cap banned_words # {}
IsBannedHash(d) == SigHash[d.sig] \in banned_hashes
IsWhitelisted(d) == d.author \in whitelist

\* A ban, as a pair of its kind and what it bans.
Bans == ({"user"} \X banned_users) \cup ({"word"} \X banned_words)
        \cup ({"hash"} \X banned_hashes) \cup ({"stranger"} \X (Key \ whitelist))

\* The bans that concern a request with header k and body d.
Concerning(k, d) == {<<"user", k>>, <<"hash", SigHash[d.sig]>>, <<"stranger", d.author>>}
                    \cup ({"word"} \X d.body)
=============================================================================
