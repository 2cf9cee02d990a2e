------------------------------ MODULE MCIngest ------------------------------
(* Stories of Ingest for TLC.                                              *)
EXTENDS Ingest, TLC

CONSTANTS d1, d2, d3, d4, c1, c2, s1, s2, v1, v2

None == [kind |-> "none"]

Ordered(o, at, who, placed, lines) ==
    [kind |-> "order", order |-> o, at |-> at, who |-> who, placed |-> placed,
     trail |-> TRUE, header |-> "unfulfilled", lines |-> lines]
Page(o, at, who, placed) == [Ordered(o, at, who, placed, {}) EXCEPT !.kind = "page"]
Shipped(s, o, created, at, live) ==
    [kind |-> "ship", ship |-> s, order |-> o, created |-> created, at |-> at,
     live |-> live]
About(kind, c) == [kind |-> kind, who |-> c]
Edit(kind, v, n) == [kind |-> kind, variant |-> v, value |-> n]
Checkout(at) == [kind |-> "checkout", at |-> at]

Story(a, b, c, d, legacy, copied, costs) ==
    [tells |-> (d1 :> a @@ d2 :> b @@ d3 :> c @@ d4 :> d),
     legacy |-> legacy, copied |-> copied,
     costs |-> costs]

MCStories == {
    \* two orders of a shopper placed at the same time, one updated, an import
    Story(Ordered(1, 1, c1, 2, {}), Ordered(2, 1, c1, 2, {}),
          Ordered(1, 2, c1, 1, {}), Page(3, 1, c1, 1), {}, FALSE, TRUE),
    \* an order changes hands between two shoppers
    Story(Ordered(1, 1, c1, 1, {}), Ordered(1, 2, c2, 1, {}),
          Ordered(2, 1, c1, 2, {}), Page(3, 0, c2, 2), {}, FALSE, TRUE),
    \* erasure against access, an order and an import page
    Story(Ordered(1, 1, c1, 1, {}), About("access", c1), About("redact", c1),
          Page(2, 1, c1, 2), {}, FALSE, TRUE),
    Story(About("redact", c1), Ordered(1, 2, c1, 1, {}), About("redact", c1),
          Page(1, 1, c1, 1), {}, FALSE, TRUE),
    \* shipments, one from before the ids, and a cancellation
    Story(Shipped(s1, 1, 1, 1, TRUE), Shipped(s1, 1, 1, 2, FALSE),
          Shipped(s2, 1, 1, 1, TRUE), Ordered(1, 1, c1, 1, {}), {1}, FALSE, TRUE),
    Story(Shipped(s1, 1, 1, 1, TRUE), Shipped(s1, 1, 1, 2, FALSE),
          Ordered(1, 2, c1, 1, {}), Ordered(1, 1, c1, 1, {}), {}, FALSE, TRUE),
    \* edits of a product against an order that names one of its variants
    Story(Edit("price", v1, 2), Edit("cost", v1, 2), Ordered(1, 1, c1, 1, {v2}),
          Edit("price", v2, 2), {}, FALSE, TRUE),
    Story(Edit("price", v1, 2), Edit("cost", v1, 2), [kind |-> "import"],
          Edit("cost", v1, 1), {}, TRUE, TRUE),
    Story(Edit("price", v1, 2), Edit("withdraw", v2, 0), [kind |-> "import"],
          Ordered(1, 1, c1, 1, {v1, v2}), {}, TRUE, TRUE),
    \* checkouts
    Story(Checkout(1), Checkout(2), None, None, {}, FALSE, TRUE),
    \* without the cost scope
    Story(Edit("price", v1, 2), Edit("cost", v1, 2), None, None, {}, TRUE, FALSE) }
=============================================================================
