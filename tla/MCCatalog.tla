----------------------------- MODULE MCCatalog -----------------------------
(* An instance of the catalog for TLC: three nodes, payloads of every form. *)
EXTENDS Catalog

CONSTANTS n1, n2, n3, p1, p2

Doc(form, wrap, items) == [form |-> form, wrap |-> wrap, items |-> items]

\* One entry more than MaxEntries, with a comment and a duplicate; one failure
\* more than MaxFailures; a container in base64; an empty list; base64 that is
\* refused; a Clash document that is not recognised; and nothing of use.
Payloads ==
  { Doc("lines", "plain", <<Skipped, Entry(n1), Entry(n1), Entry(n2), Entry(n3)>>),
    Doc("lines", "base64", <<Entry(Bad), Entry(Bad), Entry(n2)>>),
    Doc("clash", "base64", <<Entry(n3)>>),
    Doc("clash", "plain", <<>>),
    Doc("lines", "refused", <<Entry(n1)>>),
    Doc("unmarked", "plain", <<Entry(n2)>>),
    Doc("no proxies", "plain", <<>>), Doc("singbox", "base64", <<>>), Doc("binary", "plain", <<>>) }

Names == n1 :> 1 @@ n2 :> 1 @@ n3 :> 2
Countries == n1 :> 1 @@ n2 :> 2 @@ n3 :> 1

Slow == [latency |-> 500, health |-> 10]
Unread == [latency |-> Untested, health |-> 0]
ArenaSet == {<<>>, <<Slow>>, <<Slow, Slow, Slow>>, <<Unread, Slow, Unread>>}

\* A file from before the protocol_kind column, with a row that no longer decodes.
OldFile == <<n1, n2>>

Instances == Permutations(Proc)
=============================================================================
