------------------------ MODULE MCStreamMultiplexer ------------------------
(* Small instances of StreamMultiplexer for TLC. *)
EXTENDS StreamMultiplexer, TLC

StockBars == <<"stocks", "bars">>
StockQuotes == <<"stocks", "quotes">>
CryptoBars == <<"crypto", "bars">>

TwoStreams == <<"stocks", "crypto">>
ThreeChannels == {StockBars, StockQuotes, CryptoBars}

(* One feed, two feeds of one upstream, and feeds of two upstreams. *)
MCRequests == {<<StockBars>>, <<StockQuotes, CryptoBars>>}
MCTasks == 1 .. 2
=============================================================================
