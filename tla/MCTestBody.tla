------------------------------ MODULE MCTestBody ------------------------------
(* A browser resource with a timeout around a provider step, and a browser step. *)
EXTENDS TestBody, TLC

CONSTANTS test, resource, block, timeout, timed, provider, browser

Tree == {test, resource, block, timeout, timed, provider, browser}
KindOf == (test :> "test") @@ (resource :> "resource") @@ (block :> "sequence")
          @@ (timeout :> "timeout") @@ (timed :> "sequence")
          @@ (provider :> "provider") @@ (browser :> "browser")
ChildrenOf == (test :> <<resource>>) @@ (resource :> <<block>>) @@ (block :> <<timeout, browser>>)
              @@ (timeout :> <<timed>>) @@ (timed :> <<provider>>)
              @@ (provider :> <<>>) @@ (browser :> <<>>)
BelowOf == (test :> Nodes \ {test}) @@ (resource :> Nodes \ {test, resource})
           @@ (block :> {timeout, timed, provider, browser}) @@ (timeout :> {timed, provider})
           @@ (timed :> {provider}) @@ (provider :> {}) @@ (browser :> {})
=============================================================================
