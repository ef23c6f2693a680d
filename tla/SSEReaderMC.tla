---------------------------- MODULE SSEReaderMC ----------------------------
(* An instance of SSEReader: pieces of lines, and lines with each kind of field. *)
EXTENDS SSEReader

MCChunks ==
  {<<"\n">>, <<"\r">>, <<":">>, <<" ">>, <<"data">>, <<"data", ":", " ", "x", "\n">>,
   <<"event", ":", "x", "\n">>, <<"id", ":", "x", "\n">>, <<"id", ":", "\\0", "\n">>}

DataLines == {<<"data", "\n">>, <<"data", ":", "x", "\n">>, <<"\n">>}
=============================================================================
