----------------------------- MODULE MCInbound -----------------------------
(* Small instances of GatewayInbound: one stranger's mail and what it sets  *)
(* off.                                                                     *)
EXTENDS GatewayInbound

CONSTANTS alice, mallory

Unbroken(tool) == [tool |-> tool, named |-> TRUE, identified |-> TRUE, parsable |-> TRUE]

\* What the adapters make of them: a search and a mail, or a failure; a shell,
\* with an unknown tool behind it or alone.
Some == {<<[Unbroken("search_email") EXCEPT !.parsable = FALSE], Unbroken("send_email")>>,
         <<Unbroken("shell"), [Unbroken("unknown") EXCEPT !.identified = FALSE]>>}

\* A shell alone.
Shells == {<<Unbroken("shell")>>}
=============================================================================
