--------------------------- MODULE MCCloudRequests ---------------------------
(***************************************************************************)
(* Instance of CloudRequests for TLC.                                      *)
(***************************************************************************)
EXTENDS CloudRequests

MCBucketNames == {<<"a">>, <<"b">>, <<"a", "--", "zone", "--x-s3">>}
MCRegions == {Empty, <<"here">>, <<"there">>}
MCEndpoints == {<<"host">>, <<"other">>}
MCFiles == {<<"dir", "/", "file">>}
MCAnswers == {<<"<Bucket>", "<UploadId>", "id", "</UploadId>", "end">>,
              <<"<UploadId>", "id", "+", "/", "%", "=", "</UploadId>">>}

=============================================================================
