------------------------- MODULE ServiceLifecycles --------------------------
(***************************************************************************)
(* Init, Read and Close of the other bindings and of the cryptography,     *)
(* secret store, conversation and name resolution components.              *)
(***************************************************************************)
EXTENDS BrokerLifecycles

\* Input bindings that start goroutines of their own.
KubernetesInit == <<Check("metadata"), Check("client")>>
KubernetesRead == <<Spawns("watcher"), Spawns("informer"), Spawns("reader")>>
KubernetesClose ==
  <<Signals("watcher"), Joins("watcher"), Joins("informer"), Joins("reader")>>
EventGridInit == <<Check("properties"), Check("subscriber endpoint")>>
EventGridRead ==
  <<Check("metadata of the input"), Check("keys"), Spawns("server"),
    Spawns("shutter"), Check("subscription")>>
EventGridClose == <<Signals("shutter"), Joins("server"), Joins("shutter")>>
RethinkBindingInit == <<Check("metadata"), Check("TLS"), Opens("session")>>
RethinkBindingRead == <<Check("cursor"), Spawns("watcher"), Spawns("reader")>>
RethinkBindingClose ==
  <<Signals("watcher"), Derefs("session"), Joins("watcher"), Joins("reader")>>
CronInit == <<Check("properties"), Check("schedule")>>
CronRead == <<Check("schedule"), Spawns("jobs"), Spawns("stopper")>>
CronClose == <<Signals("stopper"), Joins("stopper")>>
DingTalkInit == <<Check("properties"), Check("settings")>>
DingTalkRead == <<Check("duplicate id"), Makes("webhook")>>
DingTalkClose == <<Releases("webhook")>>
ZeebeClient == <<Check("metadata"), Check("credentials"), Opens("client")>>
JobWorkerInit == <<Check("metadata"), Check("job type")>> \o ZeebeClient
JobWorkerClose == <<Releases("client")>>

\* Output bindings.
CommandInit == ZeebeClient
CommandClose == <<Releases("client")>>
MySQLBindingInit ==
  <<Check("metadata"), Check("connection string"), Opens("db"), Check("ping")>>
MySQLBindingClose == <<Once, Releases("db"), Clears("db")>>

PostgresBindingMetadata ==
  <<Check("properties")>> \o PostgresAuth \o <<Check("timeout")>>
PostgresBindingInit ==
  PostgresBindingMetadata \o PoolConfig
  \o <<Check("AWS IAM"), Opens("db"), Check("ping")>>
PostgresBindingClose == <<Once, Releases("db"), Clears("db")>>
RedisBindingInit == RedisClient \o <<Check("ping")>>
RedisBindingClose == <<Derefs("client")>>

WasmMetadata ==
  <<Check("properties"), Check("URL"), Check("scheme"), Check("guest")>>
WasmInit ==
  WasmMetadata
  \o <<Makes("runtime"), OrElse(Check("compilation"), {"runtime"}),
       OrElse(Check("WASI"), {"runtime"}), OrElse(Check("strict sandbox"), {"runtime"}),
       OrElse(Check("WASI HTTP"), {"runtime"})>>
WasmClose == <<Releases("runtime")>>
SFTPClient ==
  <<Check("address"), Takes("connection"), OrElse(Takes("session"), {"connection"}),
    Keeps("connection"), Keeps("session")>>
SFTPInit ==
  <<Check("metadata"), Check("host key"), Check("private key")>> \o SFTPClient
SFTPClose == <<Derefs("session"), Releases("connection")>>
SLSInit == <<Check("metadata"), Makes("producer")>>
SLSClose == <<Releases("producer")>>
GCPBucketInit ==
  <<Check("properties"), Check("bucket"), Check("project"), Opens("client")>>
GCPBucketClose == <<Derefs("client")>>
OBSInit ==
  <<Check("metadata"), Check("bucket"), Check("endpoint"), Check("keys"), Opens("client")>>
OBSClose == <<Releases("client")>>
GremlinInit == <<Check("metadata"), Opens("client")>>
GremlinClose == <<Releases("client")>>
InfluxInit ==
  <<Check("metadata"), Check("URL"), Check("token"), Check("org"), Check("bucket"),
    Makes("client")>>
InfluxClose == <<Derefs("client")>>
CommerceToolsInit == <<Check("metadata"), Makes("client")>>
CommerceToolsClose == <<Releases("client"), Clears("client")>>
OpenAIInit ==
  <<Check("metadata"), Check("endpoint"), Check("credential"), Opens("client")>>
OpenAIClose == <<Releases("client"), Clears("client")>>
DynamoBindingInit == <<Check("metadata"), Check("AWS config")>>
SESInit == <<Check("metadata"), Check("AWS config")>>
S3Init == <<Check("metadata"), Check("AWS config")>>
BlobBindingInit == BlobStoreInit
OSSInit == <<Check("metadata"), Check("client")>>
TableStoreBindingInit == <<Check("metadata")>>
SMTPInit ==
  <<Check("properties"), Check("host"), Check("credentials"), Check("priority")>>
GraphQLInit == <<Check("properties"), Check("endpoint")>>
HTTPInit ==
  <<Check("properties"), Check("root certificates"), Check("client certificates"),
    Check("renegotiation"), Check("limit of the response")>>
PostmarkInit == <<Check("properties"), Check("tokens")>>
SendGridInit == <<Check("properties"), Check("key")>>
SMSInit ==
  <<Check("properties"), Check("number"), Check("account"), Check("token")>>
APNSInit ==
  <<Check("properties"), Check("key id"), Check("team id"), Check("private key")>>
SignalRInit ==
  <<Check("properties"), Check("connection string"), Check("endpoint"),
    Check("environment"), Check("credential")>>
CosmosBindingInit ==
  <<Check("metadata"), Check("credential"), Check("client"), Check("container"),
    Check("read of the container")>>
LocalStorageInit ==
  <<Check("properties"), Check("root path"), Check("directory")>>

\* Cryptography.

JWKSMetadata == <<Check("properties"), Check("keys")>>
JWKSInit ==
  JWKSMetadata \o <<Spawns("starter"), Spawns("canceller"), Check("first load")>>
JWKSClose == <<Signals("canceller"), Joins("canceller")>>
KubernetesCryptoInit == <<Check("metadata"), Check("client")>>

KeyVaultMetadata ==
  <<Check("properties"), Check("name"), Check("environment"), Check("credential")>>
KeyVaultCryptoInit == KeyVaultMetadata \o <<Check("client")>>
LocalCryptoInit == <<Check("properties"), Check("path"), Check("directory")>>

\* Secret stores.
ParameterStoreInit == <<Check("metadata"), Check("client")>>
SecretManagerInit ==
  <<Check("metadata"), Check("project"), Check("credentials"), Opens("client")>>
SecretManagerClose == <<Releases("client")>>
SSMInit == <<Check("metadata"), Check("AWS config")>>
AWSSecretsInit == <<Check("metadata"), Check("AWS config")>>
CSMSInit == <<Check("properties")>>
VaultInit ==
  <<Check("properties"), Check("type of values"), Check("token"), Check("client")>>
KubernetesSecretsInit == <<Check("metadata"), Check("client")>>
TencentInit == <<Check("properties"), Check("keys"), Check("client")>>
KeyVaultInit ==
  <<Check("properties"), Check("environment"), Check("credential"), Check("client")>>
FileSecretsInit == <<Check("metadata"), Check("file")>>

\* Conversation: the model, and the cache of its responses.
BedrockInit ==
  <<Check("properties"), Check("AWS config"), Check("model"), Check("cache")>>
OllamaInit == <<Check("properties"), Check("model"), Check("cache")>>
GoogleAIInit == <<Check("properties"), Check("model"), Check("cache")>>
MistralInit ==
  <<Check("properties"), Check("key"), Check("model"), Check("cache")>>
HuggingfaceInit == <<Check("properties"), Check("model"), Check("cache")>>
AnthropicInit ==
  <<Check("properties"), Check("options"), Check("model"), Check("cache")>>
DeepseekInit == <<Check("properties"), Check("model")>>
OpenAIModelInit ==
  <<Check("properties"), Check("options"), Check("model"), Check("cache")>>

\* Name resolution.
RegisterMDNS ==
  <<Makes("registration"), Check("announcement"), Spawns("mDNS server")>>
MDNSInit ==
  <<Check("name"), Check("address"), Check("port")>> \o RegisterMDNS
  \o <<Spawns("refreshers")>>
MDNSClose ==
  <<Releases("registration"), Clears("registration"), Signals("mDNS server"),
    Signals("refreshers"), Joins("mDNS server")>>
CloudMapInit ==
  <<Check("properties"), Check("values"), Check("AWS config"), Check("namespace")>>
NameFormatInit ==
  <<Check("properties"), Check("format"), Check("placeholder")>>
KubernetesNamesInit == <<Check("configuration"), Fatal(Check("template"))>>

ServiceInits ==
  [kubernetes |-> KubernetesInit, eventgrid |-> EventGridInit,
   rethinkdb_binding |-> RethinkBindingInit, cron |-> CronInit,
   dingtalk |-> DingTalkInit, jobworker |-> JobWorkerInit,
   zeebe_command |-> CommandInit, mysql_binding |-> MySQLBindingInit,
   postgres_binding |-> PostgresBindingInit, redis_binding |-> RedisBindingInit,
   wasm |-> WasmInit, sftp |-> SFTPInit, sls |-> SLSInit,
   gcp_bucket |-> GCPBucketInit, obs |-> OBSInit, gremlin |-> GremlinInit,
   influx |-> InfluxInit, commercetools |-> CommerceToolsInit,
   azure_openai |-> OpenAIInit, dynamodb_binding |-> DynamoBindingInit,
   ses |-> SESInit, s3 |-> S3Init, blob_binding |-> BlobBindingInit,
   oss |-> OSSInit, tablestore_binding |-> TableStoreBindingInit,
   smtp |-> SMTPInit, graphql |-> GraphQLInit, http |-> HTTPInit,
   postmark |-> PostmarkInit, sendgrid |-> SendGridInit, sms |-> SMSInit,
   apns |-> APNSInit, signalr |-> SignalRInit,
   cosmosdb_binding |-> CosmosBindingInit, localstorage |-> LocalStorageInit,
   jwks |-> JWKSInit, kubernetes_crypto |-> KubernetesCryptoInit,
   keyvault_crypto |-> KeyVaultCryptoInit, local_crypto |-> LocalCryptoInit,
   oos |-> ParameterStoreInit, gcp_secrets |-> SecretManagerInit,
   aws_ssm |-> SSMInit, aws_secrets |-> AWSSecretsInit, csms |-> CSMSInit,
   vault |-> VaultInit, kubernetes_secrets |-> KubernetesSecretsInit,
   tencent |-> TencentInit, keyvault |-> KeyVaultInit,
   file_secrets |-> FileSecretsInit, bedrock |-> BedrockInit,
   ollama |-> OllamaInit, googleai |-> GoogleAIInit, mistral |-> MistralInit,
   huggingface |-> HuggingfaceInit, anthropic |-> AnthropicInit,
   deepseek |-> DeepseekInit, openai |-> OpenAIModelInit, mdns |-> MDNSInit,
   cloudmap |-> CloudMapInit, nameformat |-> NameFormatInit,
   kubernetes_names |-> KubernetesNamesInit]

\* Of the components whose Close does something with a resource or a goroutine.
ServiceCloses ==
  [kubernetes |-> KubernetesClose, eventgrid |-> EventGridClose,
   rethinkdb_binding |-> RethinkBindingClose, cron |-> CronClose,
   dingtalk |-> DingTalkClose, jobworker |-> JobWorkerClose,
   zeebe_command |-> CommandClose, mysql_binding |-> MySQLBindingClose,
   postgres_binding |-> PostgresBindingClose,
   redis_binding |-> RedisBindingClose, wasm |-> WasmClose, sftp |-> SFTPClose,
   sls |-> SLSClose, gcp_bucket |-> GCPBucketClose, obs |-> OBSClose,
   gremlin |-> GremlinClose, influx |-> InfluxClose,
   commercetools |-> CommerceToolsClose, azure_openai |-> OpenAIClose,
   jwks |-> JWKSClose, gcp_secrets |-> SecretManagerClose, mdns |-> MDNSClose]

ServiceReads ==
  [kubernetes |-> KubernetesRead, eventgrid |-> EventGridRead,
   rethinkdb_binding |-> RethinkBindingRead, cron |-> CronRead,
   dingtalk |-> DingTalkRead]
=============================================================================
