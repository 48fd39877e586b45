SPECIFICATION Spec
CONSTANTS
  r1 = r1 r2 = r2 r3 = r3 r4 = r4
  seed1 = seed1 seed2 = seed2 n1 = n1 l1 = l1 l2 = l2 l3 = l3 u1 = u1 u2 = u2
  s1 = s1 s2 = s2 s3 = s3 t1 = t1 t2 = t2
  SeedRows = {seed1, seed2}
  Namespaces = {n1}
  Labels = {l1, l2, l3}
  Owners = {u1, u2}
  StorageNames = {s1, s2, s3}
  SeedStorages <- MCSeedStorages
  SeedVolumes <- MCSeedVolumes
  SeedPaid = {seed1}
  Tariffs = {t1, t2}
  VolumeTariff <- MCVolumeTariff
  NsVolumeSize <- MCNsVolumeSize
  FreeTariff = FreeTariff
  ZeroUUID = u2
  NoRow = NoRow
  NoTx = NoTx
  NoCall = NoCall
  NoName = NoName
  NoSize = NoSize
  Requests = {r1, r2}
  Calls <- OnlyDeleteAllCalls
  MaxActive = 2
  PoolSize = 2
  Faults = {}
PROPERTY DeleteAllDeletes
