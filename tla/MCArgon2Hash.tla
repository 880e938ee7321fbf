---------------------------- MODULE MCArgon2Hash ----------------------------
(***************************************************************************)
(* The calls explored. On a machine of 6-bit words 8 lanes make            *)
(* 8 * lanes wrap to 0, and a size_t can be larger than a word.            *)
(***************************************************************************)
EXTENDS Argon2Hash

Plain ==
    [api |-> "raw", platform |-> "ios", type |-> Argon2_id, pwd |-> "p", stored |-> "p", salt |-> "s",
     pwdlen |-> 1, saltlen |-> 2, hashlen |-> 4, m_cost |-> 17, t_cost |-> 1, lanes |-> 2,
     version |-> VERSION_NUMBER, string |-> "good", room |-> "enough"]

Costs ==
    {[Plain EXCEPT !.m_cost = m, !.lanes = l, !.t_cost = t] :
        m \in {7, 8, 15, 17, 24, 40, 41}, l \in {0, 1, 2, 3, 4, 8}, t \in {0, 1}}

Lengths ==
    {[Plain EXCEPT !.api = api, !.pwdlen = p, !.saltlen = s, !.hashlen = h] :
        api \in {"raw", "verify"}, p \in {0, 64}, s \in {1, 64}, h \in {3, 4, 63, 64}}

\* What hp_argon2_hash is given; kdf.dart asks for Argon2id.
Bridge(platform, types) ==
    {[Plain EXCEPT !.api = "ffi", !.platform = platform, !.type = type, !.lanes = l,
                   !.pwd = p, !.hashlen = h] :
        type \in types, l \in {1, 2}, p \in {"p", "q", "NULL"}, h \in {0, 4}}
MCIosKdf == Bridge("ios", {Argon2_id})
MCMacosKdf == Bridge("macos", {Argon2_id})

Encoded == {[Plain EXCEPT !.api = "encoded", !.type = type, !.room = room] :
               type \in 0 .. 3, room \in {"enough", "short", "none"}}

Verify == {[Plain EXCEPT !.api = "verify", !.type = type, !.pwd = p, !.string = str,
                         !.version = v, !.lanes = l] :
              type \in 0 .. 3, p \in {"p", "q"}, v \in {VERSION_10, VERSION_NUMBER},
              str \in {"null", "too long", "malformed", "trailing", "good"}, l \in {1, 2}}

MCCalls == Costs \cup Lengths \cup Encoded \cup Verify
           \cup Bridge("ios", 0 .. 3) \cup Bridge("macos", 0 .. 3)
=============================================================================
