------------------------------ MODULE Backends ------------------------------
(***************************************************************************)
(* What the storage adapters of pkg/object do with List, Get, Head, Put,   *)
(* Delete and multipart uploads, as far as callers can tell them apart.    *)
(* The services behind them are external: a request takes effect as a      *)
(* whole or not at all.                                                    *)
(***************************************************************************)
EXTENDS Sequences, Integers, FiniteSets

\* a key is its rank in byte order: the i-th of a set of keys, and all in order
Nth(S, i) == CHOOSE k \in S : Cardinality({j \in S : j < k}) = i - 1
InOrder(S) == [i \in 1..Cardinality(S) |-> Nth(S, i)]

(* A page of a flat listing.  token: the position is a token of the        *)
(* service, the marker counts only on the first page; from: keys after the *)
(* marker, from the marker on, or any (the marker is not passed on);       *)
(* drops: keys up to the marker are taken out of the page; more: there is  *)
(* another page if the service says so, if this one is full, or if the     *)
(* service says so and something is left of this one.                      *)
Flat(token, from, drops, more) ==
    [flat |-> TRUE, token |-> token, from |-> from, drops |-> drops, more |-> more]

Token == Flat(TRUE, "after", FALSE, "truncated")
Marker == Flat(FALSE, "after", FALSE, "truncated")
MarkerFull == Flat(FALSE, "after", FALSE, "full")

(* Directory by directory, for the walk of ListAllWithDelimiter.  denied:  *)
(* a directory that may not be read is skipped, or an error; root: the     *)
(* listing of a whole store begins with its root.                          *)
Tree(denied, root) == [flat |-> FALSE, denied |-> denied, root |-> root]

s3List == Token
ossList == Token
tosList == Token
oosList == Flat(TRUE, "from", TRUE, "truncated")
cosList == Marker
obsList == Marker
bosList == Marker
ks3List == Marker
ibmcosList == Marker
qingstorList == Marker
ufileList == Marker
swiftList == MarkerFull
dragonflyList == MarkerFull
sqlList == MarkerFull
memList == MarkerFull
storjList == MarkerFull
azureList == Flat(TRUE, "any", TRUE, "truncated")
qiniuList == Flat(TRUE, "any", TRUE, "left")
b2List == Flat(FALSE, "from", TRUE, "truncated")
gsList == Flat(TRUE, "from", FALSE, "truncated")
etcdList == Flat(FALSE, "from", FALSE, "truncated")
tikvList == Flat(FALSE, "from", FALSE, "full")
fileList == Tree("skip", TRUE)
sftpList == Tree("skip", TRUE)
nfsList == Tree("skip", TRUE)
hdfsList == Tree("skip", TRUE)
cifsList == Tree("skip", FALSE)
glusterList == Tree("skip", FALSE)
webdavList == Tree("skip", FALSE)
bunnyList == Tree("error", FALSE)

FlatLists ==
    {s3List, ossList, tosList, oosList, cosList, obsList, bosList, ks3List, ibmcosList,
     qingstorList, ufileList, swiftList, dragonflyList, sqlList, memList, storjList,
     azureList, qiniuList, b2List, gsList, etcdList, tikvList}
TreeLists ==
    {fileList, sftpList, nfsList, hdfsList, cifsList, glusterList, webdavList, bunnyList}

-----------------------------------------------------------------------------
(* The steps of Put, what it does to a temporary file after an error, and  *)
(* whether --inplace makes the object itself the temporary file.           *)
Put(steps, cleans, inplace) == [op |-> "put", steps |-> steps, cleans |-> cleans, inplace |-> inplace]

OneRequest == Put(<<"put">>, FALSE, FALSE)

s3Put == OneRequest
ossPut == OneRequest
tosPut == OneRequest
cosPut == OneRequest
obsPut == OneRequest
bosPut == OneRequest
ks3Put == OneRequest
ibmcosPut == OneRequest
qingstorPut == OneRequest
ufilePut == OneRequest
swiftPut == OneRequest
dragonflyPut == OneRequest
sqlPut == OneRequest
memPut == OneRequest
storjPut == OneRequest
azurePut == OneRequest
qiniuPut == OneRequest
b2Put == OneRequest
gsPut == OneRequest
etcdPut == OneRequest
tikvPut == OneRequest
redisPut == OneRequest
webdavPut == OneRequest
bunnyPut == OneRequest
filePut == Put(<<"create", "write", "rename">>, TRUE, TRUE)
\* in place, an object that is there makes way before it is created again
nfsPut == Put(<<"unlink", "create", "write", "rename">>, TRUE, TRUE)
hdfsPut == Put(<<"unlink", "create", "write", "rename">>, TRUE, TRUE)
\* the deferred Remove looks at an err that the function it is in never sets
cifsPut == Put(<<"create", "write", "rename">>, FALSE, TRUE)
sftpPut == Put(<<"create", "write", "remove", "rename">>, TRUE, TRUE)
\* always in place, and unlinked after an error
glusterPut == Put(<<"create", "write">>, TRUE, TRUE)
\* a stream is written over the object from its start, which does not shorten it
cephPut == Put(<<"begin", "extend">>, FALSE, FALSE)

Puts ==
    {s3Put, ossPut, tosPut, cosPut, obsPut, bosPut, ks3Put, ibmcosPut, qingstorPut, ufilePut,
     swiftPut, dragonflyPut, sqlPut, memPut, storjPut, azurePut, qiniuPut, b2Put, gsPut, etcdPut,
     tikvPut, redisPut, webdavPut, bunnyPut, filePut, nfsPut, hdfsPut, cifsPut, sftpPut,
     glusterPut, cephPut}

(* Delete.  missing: what it says of an object that is not there; latest:  *)
(* it removes one version only, and the one before is there again.         *)
Delete(missing, latest) == [op |-> "delete", missing |-> missing, latest |-> latest]

Quiet == Delete("ok", FALSE)

s3Delete == Quiet
ossDelete == Quiet
tosDelete == Quiet
cosDelete == Quiet
obsDelete == Quiet
bosDelete == Quiet
ks3Delete == Quiet
ibmcosDelete == Quiet
qingstorDelete == Quiet
swiftDelete == Quiet
sqlDelete == Quiet
memDelete == Quiet
storjDelete == Quiet
azureDelete == Quiet
qiniuDelete == Quiet
gsDelete == Quiet
etcdDelete == Quiet
tikvDelete == Quiet
redisDelete == Quiet
webdavDelete == Quiet
bunnyDelete == Quiet
restfulDelete == Quiet
fileDelete == Quiet
sftpDelete == Quiet
nfsDelete == Quiet
hdfsDelete == Quiet
cifsDelete == Quiet
glusterDelete == Quiet
cephDelete == Quiet
\* any status but 2xx is an error
dragonflyDelete == Delete("error", FALSE)
b2Delete == Delete("ok", TRUE)

Deletes ==
    {s3Delete, ossDelete, tosDelete, cosDelete, obsDelete, bosDelete, ks3Delete, ibmcosDelete,
     qingstorDelete, swiftDelete, sqlDelete, memDelete, storjDelete, azureDelete, qiniuDelete,
     gsDelete, etcdDelete, tikvDelete, redisDelete, webdavDelete, bunnyDelete, restfulDelete,
     fileDelete, sftpDelete, nfsDelete, hdfsDelete, cifsDelete, glusterDelete, cephDelete,
     dragonflyDelete, b2Delete}

-----------------------------------------------------------------------------
(* Get of a range.  past: a range that begins behind the object is an      *)
(* error, or empty; zero: a limit of 0 is the rest of the object, nothing, *)
(* or a range nobody serves; live: what is read is what is there when it   *)
(* is read, not when Get was called.                                       *)
Get(past, zero, live) == [past |-> past, zero |-> zero, live |-> live]

Ranged == Get("error", "rest", FALSE)
Sliced == Get("empty", "rest", FALSE)
Opened == Get("empty", "rest", TRUE)

s3Get == Ranged
ossGet == Ranged
tosGet == Ranged
cosGet == Ranged
obsGet == Ranged
bosGet == Ranged
ks3Get == Ranged
ibmcosGet == Ranged
qingstorGet == Ranged
restfulGet == Ranged
swiftGet == Ranged
dragonflyGet == Ranged
storjGet == Ranged
azureGet == Ranged
qiniuGet == Ranged
webdavGet == Ranged
sqlGet == Sliced
memGet == Sliced
etcdGet == Sliced
tikvGet == Sliced
redisGet == Sliced
fileGet == Opened
nfsGet == Opened
hdfsGet == Opened
cifsGet == Opened
sftpGet == Opened
glusterGet == Opened
gsGet == Get("error", "nothing", FALSE)
b2Get == Get("error", "refused", FALSE)
bunnyGet == Get("error", "refused", FALSE)
cephGet == Get("empty", "nothing", TRUE)

Gets ==
    {s3Get, ossGet, tosGet, cosGet, obsGet, bosGet, ks3Get, ibmcosGet, qingstorGet, restfulGet,
     swiftGet, dragonflyGet, storjGet, azureGet, qiniuGet, webdavGet, sqlGet, memGet, etcdGet,
     tikvGet, redisGet, fileGet, nfsGet, hdfsGet, cifsGet, sftpGet, glusterGet, gsGet, b2Get,
     bunnyGet, cephGet}

(* Head.  gone: of an object that is not there callers get nothing, or a   *)
(* pointer that is not nil as an interface; failed: a request that failed  *)
(* is an error, or nil without one.                                        *)
Look(gone, failed) == [gone |-> gone, failed |-> failed]

Plain == Look("nothing", "error")

s3Head == Plain
ossHead == Plain
tosHead == Plain
cosHead == Plain
obsHead == Plain
bosHead == Plain
ks3Head == Plain
ibmcosHead == Plain
qingstorHead == Plain
restfulHead == Plain
swiftHead == Plain
storjHead == Plain
azureHead == Plain
qiniuHead == Plain
b2Head == Plain
gsHead == Plain
bunnyHead == Plain
webdavHead == Plain
sqlHead == Plain
memHead == Plain
etcdHead == Plain
tikvHead == Plain
redisHead == Plain
fileHead == Plain
nfsHead == Plain
hdfsHead == Plain
cifsHead == Plain
sftpHead == Plain
glusterHead == Plain
dragonflyHead == Look("nothing", "nothing")
cephHead == Look("pointer", "error")

Heads ==
    {s3Head, ossHead, tosHead, cosHead, obsHead, bosHead, ks3Head, ibmcosHead, qingstorHead,
     restfulHead, swiftHead, storjHead, azureHead, qiniuHead, b2Head, gsHead, bunnyHead,
     webdavHead, sqlHead, memHead, etcdHead, tikvHead, redisHead, fileHead, nfsHead, hdfsHead,
     cifsHead, sftpHead, glusterHead, dragonflyHead, cephHead}

(* Multipart uploads.  copies: a part can be copied from another object;   *)
(* number: what UploadPart adds to the number of the part it gives back;   *)
(* fewer: Limits says fewer parts than CreateMultipartUpload does.         *)
Multipart(copies, number, fewer) == [copies |-> copies, number |-> number, fewer |-> fewer]

s3Multipart == Multipart(TRUE, 0, FALSE)
ossMultipart == Multipart(TRUE, 0, FALSE)
tosMultipart == Multipart(TRUE, 0, FALSE)
cosMultipart == Multipart(TRUE, 0, FALSE)
obsMultipart == Multipart(TRUE, 0, FALSE)
bosMultipart == Multipart(TRUE, 0, FALSE)
ks3Multipart == Multipart(TRUE, 0, FALSE)
qingstorMultipart == Multipart(TRUE, 0, FALSE)
ibmcosMultipart == Multipart(FALSE, 0, FALSE)
oosMultipart == Multipart(FALSE, 0, FALSE)
storjMultipart == Multipart(FALSE, 0, FALSE)
scwMultipart == Multipart(TRUE, 0, TRUE)
ufileMultipart == Multipart(FALSE, -1, FALSE)

Multiparts ==
    {s3Multipart, ossMultipart, tosMultipart, cosMultipart, obsMultipart, bosMultipart,
     ks3Multipart, qingstorMultipart, ibmcosMultipart, oosMultipart, storjMultipart,
     scwMultipart, ufileMultipart}
=============================================================================
