SPECIFICATION MCSpec
CONSTANTS
    author = author
    author2 = author2
    blog = blog
    page = page
    f = f
    g = g
    None = None
    Objects = {author, author2, blog, page}
    Spares = {author2}
    Tables = {"authors", "blogs", "pages"}
    TableOf <- MCTableOf
    RefOf <- MCRefOf
    ProxyOf <- MCProxyOf
    Fields = {f, g}
    Editable <- MCEditable
    Signalled <- MCSignalled
    Values = {0, 1}
    Default = 0
    MaxKey = 1
    MaxEvents = 3
    Configs <- MCConfigs
    Deletable = {"blogs"}
INVARIANTS
    TypeOK
    KnowsItsRow
PROPERTIES
    SaveStores
    SavesOnlyItsChanges
    Linked
