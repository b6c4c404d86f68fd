------------------------------ MODULE MCServer ------------------------------
(* Server on small instances. *)
EXTENDS Server, TLC

CONSTANTS
    Solved,    \* the texts of the one solution
    Garbled    \* a text of none

Payloads == Solved \cup {Garbled}

Decoding == [p \in Payloads |-> IF p = Garbled THEN Bad ELSE CHOOSE s \in Solution : TRUE]

Words == {"server", "listen", "auth", "username"} \cup Secret

Chosen == MaxGenerated + 1   \* a value that the operator wrote

Listen == <<Section("server"), Entry("listen", Chosen, 2), Blank>>

Files == {
    \* config.example.yaml: the keys are there, with empty values
    Listen \o <<Section("auth"), Entry("username", Chosen, 2), Entry("password_hash", 0, 2),
                Entry("api_token", 0, 2), Entry("jwt_secret", 0, 2), Blank>>,
    \* one of them is set
    <<Section("auth"), Entry("jwt_secret", Chosen, 2)>> \o Listen,
    \* the keys are not there
    Listen \o <<Section("auth"), Entry("username", Chosen, 2), Blank>>,
    \* no entry at the head of the section
    Listen \o <<Section("auth"), Blank>>,
    <<Section("auth")>> \o Listen,
    \* another indentation
    <<Section("auth"), Entry("username", Chosen, 4)>> \o Listen,
    \* the header is the last line, without a newline
    Listen \o <<Section("auth")>>,
    \* no section at all
    Listen }

Symmetry == Permutations(Request) \cup Permutations(Client) \cup Permutations(Solved)
=============================================================================
