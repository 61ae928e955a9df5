----------------------------- MODULE MCTrading -----------------------------
EXTENDS Trading

CONSTANTS BTC, ETH

MCPrices == (BTC :> {8, 16} @@ ETH :> {8})

MCLimits ==
    <<[kind |-> "positions", max |-> 1],
      [kind |-> "bucket", buckets |-> {{BTC, ETH}}, max |-> 40],
      [kind |-> "daily_loss", max |-> 4],
      [kind |-> "leverage", max |-> 2],
      [kind |-> "margin", max |-> 250],
      [kind |-> "liquidation", near |-> {ETH}],
      [kind |-> "gross_pct", max |-> 300],
      [kind |-> "gross", max |-> 40],
      [kind |-> "sizer"]>>

MCSignals ==
    {(BTC :> 2 @@ ETH :> 1), (BTC :> -1 @@ ETH :> 0)}

=============================================================================
