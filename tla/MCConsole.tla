------------------------------ MODULE MCConsole ------------------------------
(***************************************************************************)
(* Console for TLC.  Two limit orders worth exactly the smallest cap, two  *)
(* market orders, sized either way, and two that the schema refuses, one   *)
(* of zero and one that stands for an amount its floating point check      *)
(* takes for zero; a cap that equals the server's and one above it.        *)
(***************************************************************************)
EXTENDS Console, TLC

D(whole, fraction) == [negative |-> FALSE, whole |-> whole,
                       fraction |-> fraction]

Limit(side, quantity, price) ==
    [side |-> side, orderType |-> "LIMIT", quantity |-> quantity,
     quoteQuantity |-> None, limitPrice |-> price]

Market(quantity, quote) ==
    [side |-> "BUY", orderType |-> "MARKET", quantity |-> quantity,
     quoteQuantity |-> quote, limitPrice |-> None]

MCFields ==
    [buy |-> Limit("BUY", D(<<0>>, <<0, 2>>), D(<<0>>, <<0, 4>>)),
     sell |-> Limit("SELL", D(<<0>>, <<0, 2>>), D(<<0>>, <<0, 4>>)),
     quoted |-> Market(None, D(<<0, 2>>, <<>>)),
     sized |-> Market(D(<<3>>, <<>>), None),
     nothing |-> Market(D(<<0>>, <<0>>), None),
     speck |-> Market(D(<<0>>, <<0, 0, 0, 0, 1>>), None)]

MCTrade == DOMAIN MCFields

MCCap == {D(<<0>>, <<0, 0, 0, 8>>), D(<<2>>, <<>>), D(<<1, 0>>, <<>>)}

MCServerCap == D(<<2>>, <<0>>)

MCTooSmall == {D(<<0>>, <<0, 0, 0, 0, 1>>)}

MCWanted == {[trade |-> "buy", cap |-> D(<<2>>, <<>>)]}

MCSymmetry == Permutations(PollSlot)

MCKey == 0 .. MaxClicks
=============================================================================
